---- MODULE Spec2Model ----
(***************************************************************************)
(* A model of the medical-coding prompt tester: the Case Repository of     *)
(* src/src/context/DataContext.tsx (addCase, ingestAuditEntries,           *)
(* ingestRawNote), the identifier extractor of src/src/utils.ts, and the   *)
(* Test Run Ledger (addTestResult and the /api/results endpoints of        *)
(* src/server.cjs).                                                        *)
(*                                                                         *)
(* JavaScript objects are functions from property names to values; a       *)
(* property that is absent reads as undefined.  Texts are sequences of     *)
(* tokens, so that the regular expressions of extractMRN are computed.     *)
(***************************************************************************)
EXTENDS Integers, Sequences, FiniteSets, TLC

VARIABLES
    cases,        \* DataProvider state `cases`: the in-memory list of MedicalCase
    closures,     \* values of `cases` captured by renders whose callbacks are still held
    last,         \* the last repository / ledger call: its name, arguments and result
    nops,         \* number of calls made so far (bounded by MaxOps)
    testResults,  \* DataProvider state `testResults`: the in-memory run history
    dbResults,    \* rows of the test_results table, in insertion order
    posts,        \* POST /api/results requests issued and not yet handled
    clock,        \* the wall clock read by new Date(), in milliseconds
    nextId,       \* source of the fresh part of generateId()
    savedPrompts, \* DataProvider state `savedPrompts`: the in-memory list of SavedPrompt
    dbPrompts,    \* rows of the saved_prompts table, in insertion order
    promptPosts,  \* POST /api/prompts requests issued and not yet handled
    apiKey,       \* DataProvider state `apiKey`
    tester,       \* component state of the PromptTester page, while it is mounted
    calls,        \* run-test model calls in flight, each with what its runTest closed over
    ncalls,       \* number of run-test model calls issued so far (bounded by MaxCalls)
    dbCases,      \* rows of the cases table, in insertion order
    outbox,       \* requests of addCase and deletePrompt issued and not yet handled, in order
    improves,     \* improve-prompt model calls in flight, each with the mount that issued it
    ingestion,    \* component state of the Ingestion page
    uploads,      \* upload handlers of the Ingestion page that are suspended at an await
    flaggedMrns,  \* DataProvider state `flaggedMrns`: the flagged keys, in insertion order
    load          \* loadData of the DataProvider: where the initial load stands

vars == <<cases, closures, last, nops, testResults, dbResults, posts, clock, nextId,
          savedPrompts, dbPrompts, promptPosts, apiKey, tester, calls, ncalls,
          dbCases, outbox, improves, ingestion, uploads, flaggedMrns, load>>

caseVars == <<cases, closures>>
ledgerVars == <<testResults, dbResults, posts, clock, nextId>>
testerVars == <<savedPrompts, dbPrompts, promptPosts, apiKey, tester, calls, ncalls>>
storeVars == <<dbCases, outbox>>
pageVars == <<improves, ingestion, uploads>>
sessionVars == <<flaggedMrns, load>>

(***************************************************************************)
(* Bounds of the model.                                                    *)
(***************************************************************************)
MaxOps == 3        \* calls per behaviour
MaxHeld == 1       \* stale renders whose callbacks are still held
MaxBatch == 2      \* audit entries per ingestAuditEntries call
MaxClock == 1      \* clock ticks per behaviour
MaxRuns == 3       \* test runs appended per behaviour
MaxCodes == 2       \* procedure codes per gold or predicted list
MaxMounts == 2     \* times the Prompt Tester page is mounted per behaviour
MaxCalls == 2      \* run-test model calls issued per behaviour
MaxText == 3       \* tokens per text handed to extractMRN
MaxApplied == 2    \* improved prompts applied per behaviour
MaxHistory == 11   \* runs in the ledger of a session that requests an improvement

(***************************************************************************)
(* JavaScript values.                                                      *)
(***************************************************************************)
Undef == "undefined"
Null == "null"
NoObj == <<>>                       \* an absent object (undefined)
NoText == <<>>                      \* an absent or empty text (falsy)

Get(o, k) == IF k \in DOMAIN o THEN o[k] ELSE Undef
GetObj(o, k) == IF k \in DOMAIN o THEN o[k] ELSE NoObj
GetText(o, k) == IF k \in DOMAIN o THEN o[k] ELSE NoText

Truthy(s) == s /= Undef /\ s /= Null /\ s /= ""
TruthyObj(o) == o /= NoObj
TruthyText(t) == t /= NoText

\* { ...a, ...b }
Spread(a, b) == [k \in DOMAIN a \cup DOMAIN b |-> IF k \in DOMAIN b THEN b[k] ELSE a[k]]

(***************************************************************************)
(* utils.ts: extractMRN.  A text is a sequence of tokens: a keyword, a run *)
(* of digits, or another word.                                             *)
(***************************************************************************)
DigitRuns == {"1", "2", "42", "7654321"}
SevenDigitRuns == {"7654321"}
TokId == "id #"
TokMrn == "MRN:"
TokMedRec == "Medical Record Number:"
TokWord == "patient"

\* text.match(/<keyword>\s*(\d+)/): the leftmost keyword directly followed by digits
KeywordMatch(text, keyword) ==
    LET hits == {i \in 1..(Len(text) - 1) : text[i] = keyword /\ text[i + 1] \in DigitRuns}
    IN IF hits = {} THEN Undef
       ELSE text[(CHOOSE i \in hits : \A j \in hits : i <= j) + 1]

\* text.match(/\b(\d{7})\b/): the leftmost standalone run of seven digits
SevenDigitMatch(text) ==
    LET hits == {i \in 1..Len(text) : text[i] \in SevenDigitRuns}
    IN IF hits = {} THEN Undef
       ELSE text[CHOOSE i \in hits : \A j \in hits : i <= j]

\* a plausible slip: the seven-digit fallback is tried first
extractMRNFallbackFirst(text) ==
    IF SevenDigitMatch(text) /= Undef THEN SevenDigitMatch(text)
    ELSE IF KeywordMatch(text, TokId) /= Undef THEN KeywordMatch(text, TokId)
    ELSE IF KeywordMatch(text, TokMrn) /= Undef THEN KeywordMatch(text, TokMrn)
    ELSE IF KeywordMatch(text, TokMedRec) /= Undef THEN KeywordMatch(text, TokMedRec)
    ELSE Undef

extractMRN(text) ==
    IF KeywordMatch(text, TokId) /= Undef THEN KeywordMatch(text, TokId)
    ELSE IF KeywordMatch(text, TokMrn) /= Undef THEN KeywordMatch(text, TokMrn)
    ELSE IF KeywordMatch(text, TokMedRec) /= Undef THEN KeywordMatch(text, TokMedRec)
    ELSE IF SevenDigitMatch(text) /= Undef THEN SevenDigitMatch(text)
    ELSE Undef

(***************************************************************************)
(* Inputs drawn by the actions.  A code is a sequence of tokens (a letter, *)
(* a run of digits, a hyphen, a blank), so that normalisation is computed. *)
(***************************************************************************)
Specialties == {"Urology", "Cardiology"}
AuditFiles == {"audit.pdf"}
NoteFiles == {"note.pdf"}

EntryA == [mrn |-> "1", audit_filename_ref |-> "enc-1", primary_icd |-> <<"N", "20.0">>,
           secondary_icds |-> <<>>, cpt_codes |-> <<<<"52356">>>>, auditor_notes |-> "ok"]
\* the service left out the optional lists and the notes
EntryB == [mrn |-> "1", audit_filename_ref |-> "enc-1", primary_icd |-> <<"N", "13.2">>]
EntryC == [mrn |-> "2", audit_filename_ref |-> "enc-2", primary_icd |-> <<"K", "21.9">>,
           secondary_icds |-> <<>>, cpt_codes |-> <<<<"99214", "-", "25">>>>, auditor_notes |-> ""]
\* an encounter whose Medical Record Number the service did not find
EntryNoMrn == [audit_filename_ref |-> "enc-3", primary_icd |-> <<"N", "20.0">>,
               secondary_icds |-> <<>>, cpt_codes |-> <<>>, auditor_notes |-> ""]
Entries == {EntryA, EntryB, EntryC, EntryNoMrn}

Batches == UNION {[1..n -> Entries] : n \in 0..MaxBatch}

NoteTexts == {
    <<TokMrn, "1", TokWord>>,
    <<TokWord, TokId, "1">>,
    <<TokMedRec, "2">>,
    <<TokMrn, TokWord, "1">> }

(***************************************************************************)
(* DataContext.tsx: the Case Repository.                                   *)
(***************************************************************************)
\* cases.find(c => c.mrn === mrn): the first such case, or undefined
FindCase(list, mrn) ==
    LET hits == {i \in 1..Len(list) : Get(list[i], "mrn") = mrn}
    IN IF hits = {} THEN NoObj
       ELSE list[CHOOSE i \in hits : \A j \in hits : i <= j]

\* prev.findIndex(c => c.mrn === mrn): 0 stands for the code's -1
FindIndex(list, mrn) ==
    LET hits == {i \in 1..Len(list) : Get(list[i], "mrn") = mrn}
    IN IF hits = {} THEN 0
       ELSE CHOOSE i \in hits : \A j \in hits : i <= j

\* a plausible slip: the new case is always appended
addCaseAlwaysAppend(prev, caseData) == Append(prev, caseData)

\* the updater handed to setCases by addCase
addCase(prev, caseData) ==
    LET existing == FindIndex(prev, Get(caseData, "mrn"))
    IN IF existing >= 1
       THEN [prev EXCEPT ![existing] = Spread(@, caseData)]
       ELSE Append(prev, caseData)

\* a plausible slip: the identifier is not checked
EntrySkippedNever(entry) == FALSE

\* if (!mrn) return;
EntrySkipped(entry) == ~Truthy(Get(entry, "mrn"))

GroundTruthOf(entry) ==
    [primary_icd |-> Get(entry, "primary_icd"),
     secondary_icds |-> GetObj(entry, "secondary_icds"),
     cpt_codes |-> GetObj(entry, "cpt_codes"),
     auditor_notes |-> IF Truthy(Get(entry, "auditor_notes")) THEN entry.auditor_notes ELSE ""]

\* a plausible slip: the status looks at the ground truth instead of the raw text
GoldStatusByTruth(existingCase) ==
    IF TruthyObj(GetObj(existingCase, "ground_truth")) THEN "complete"
    ELSE "incomplete_truth_only"

GoldStatus(existingCase) ==
    IF TruthyText(GetText(existingCase, "raw_text")) THEN "complete"
    ELSE "incomplete_truth_only"

GoldSpecialty(existingCase, specialty) ==
    IF Truthy(Get(existingCase, "specialty")) THEN existingCase.specialty ELSE specialty

\* a plausible slip: the raw text of the existing case is not carried over
GoldRawTextDropped(existingCase) == NoText

GoldRawText(existingCase) == GetText(existingCase, "raw_text")

\* the newCase built by ingestAuditEntries for one entry
AuditCase(existingCase, entry, sourceFile, specialty) ==
    [mrn |-> Get(entry, "mrn"),
     status |-> GoldStatus(existingCase),
     specialty |-> GoldSpecialty(existingCase, specialty),
     ground_truth |-> GroundTruthOf(entry),
     raw_text |-> GoldRawText(existingCase),
     metadata |-> Spread(GetObj(existingCase, "metadata"),
                         [audit_filename_ref |-> Get(entry, "audit_filename_ref"),
                          audit_source |-> sourceFile])]

\* entries.forEach(...): `closure` is the `cases` the callback was created with,
\* `prev` the state the queued setCases updaters are applied to
RECURSIVE AuditFold(_, _, _, _, _, _)
AuditFold(closure, prev, entries, i, sourceFile, specialty) ==
    IF i > Len(entries) THEN [cases |-> prev, count |-> 0]
    ELSE IF EntrySkipped(entries[i])
         THEN AuditFold(closure, prev, entries, i + 1, sourceFile, specialty)
         ELSE LET existingCase == FindCase(closure, Get(entries[i], "mrn"))
                  newCase == AuditCase(existingCase, entries[i], sourceFile, specialty)
                  rest == AuditFold(closure, addCase(prev, newCase), entries, i + 1,
                                    sourceFile, specialty)
              IN [cases |-> rest.cases, count |-> rest.count + 1]

ingestAuditEntries(closure, prev, entries, sourceFile, specialty) ==
    AuditFold(closure, prev, entries, 1, sourceFile, specialty)

\* a plausible slip: the status of a note is always note-only
NoteStatusNoteOnly(existingCase) == "incomplete_note_only"

NoteStatus(existingCase) ==
    IF TruthyObj(GetObj(existingCase, "ground_truth")) THEN "complete"
    ELSE "incomplete_note_only"

\* the newCase built by ingestRawNote (it has no specialty property)
NoteCase(existingCase, mrn, text, fileName) ==
    [mrn |-> mrn,
     status |-> NoteStatus(existingCase),
     ground_truth |-> GetObj(existingCase, "ground_truth"),
     raw_text |-> text,
     metadata |-> Spread(GetObj(existingCase, "metadata"), [raw_note_file |-> fileName])]

\* a plausible slip: a note without identifier is filed under an empty key
ingestRawNoteNoCheck(closure, prev, text, fileName) ==
    [cases |-> addCase(prev, NoteCase(FindCase(closure, ""), "", text, fileName)),
     success |-> TRUE, mrn |-> ""]

\* a plausible slip: the list is rebuilt from the `cases` of the callback's render
\* (setCases([...cases, newCase])) instead of the state the updater receives
ingestRawNoteFromRender(closure, prev, text, fileName) ==
    LET mrn == extractMRN(text)
    IN IF ~Truthy(mrn) THEN [cases |-> prev, success |-> FALSE, mrn |-> Null]
       ELSE [cases |-> addCase(closure, NoteCase(FindCase(closure, mrn), mrn, text, fileName)),
             success |-> TRUE, mrn |-> mrn]

ingestRawNote(closure, prev, text, fileName) ==
    LET mrn == extractMRN(text)
    IN IF ~Truthy(mrn) THEN [cases |-> prev, success |-> FALSE, mrn |-> Null]
       ELSE [cases |-> addCase(prev, NoteCase(FindCase(closure, mrn), mrn, text, fileName)),
             success |-> TRUE, mrn |-> mrn]

\* loadData of the DataProvider has run to its end (setIsLoading(false))
LoadDone == [stage |-> "done"]

\* useState initial values of the Ingestion page
\* (a message is a sequence of tokens, so that the template literals are computed)
IngestionState ==
    [specialty |-> "Urology", auditStatus |-> "idle", auditMessage |-> <<>>,
     noteStatus |-> "idle", noteMessage |-> <<>>, noteResults |-> <<>>]

(***************************************************************************)
(* Actions of the Case Repository.  A call made through the callback of    *)
(* the latest render reads the current `cases`; a call made through a      *)
(* callback that an older render created (useCallback(..., [cases,         *)
(* addCase])) reads the `cases` of that render.                            *)
(***************************************************************************)
GoldCall(closure, entries, sourceFile, specialty) ==
    /\ nops < MaxOps
    /\ LET r == ingestAuditEntries(closure, cases, entries, sourceFile, specialty)
       IN /\ cases' = r.cases
          /\ last' = [op |-> "ingest_gold", stale |-> closure /= cases, entries |-> entries,
                      specialty |-> specialty, count |-> r.count]
    /\ nops' = nops + 1
    /\ UNCHANGED <<closures, ledgerVars, testerVars, pageVars, sessionVars>>

NoteCall(closure, text, fileName) ==
    /\ nops < MaxOps
    /\ LET r == ingestRawNote(closure, cases, text, fileName)
       IN /\ cases' = r.cases
          /\ last' = [op |-> "ingest_note", stale |-> closure /= cases, text |-> text,
                      success |-> r.success, mrn |-> r.mrn]
    /\ nops' = nops + 1
    /\ UNCHANGED <<closures, ledgerVars, testerVars, pageVars, sessionVars>>

\* the POST /api/cases requests of the calls are followed in SpecMirror
IngestGold ==
    /\ \E entries \in Batches, f \in AuditFiles, s \in Specialties :
          GoldCall(cases, entries, f, s)
    /\ UNCHANGED storeVars

IngestNote ==
    /\ \E text \in NoteTexts, f \in NoteFiles : NoteCall(cases, text, f)
    /\ UNCHANGED storeVars

\* a handler keeps the callbacks of the render it started in across an await
HoldClosure ==
    /\ Cardinality(closures) < MaxHeld
    /\ cases \notin closures
    /\ closures' = closures \cup {cases}
    /\ UNCHANGED <<cases, last, nops, ledgerVars, testerVars, storeVars, pageVars, sessionVars>>

DropClosure ==
    /\ \E c \in closures : closures' = closures \ {c}
    /\ UNCHANGED <<cases, last, nops, ledgerVars, testerVars, storeVars, pageVars, sessionVars>>

StaleIngestGold ==
    \E c \in closures, entries \in Batches, f \in AuditFiles, s \in Specialties :
        /\ c /= cases
        /\ GoldCall(c, entries, f, s)
        /\ UNCHANGED storeVars

StaleIngestNote ==
    \E c \in closures, text \in NoteTexts, f \in NoteFiles :
        /\ c /= cases
        /\ NoteCall(c, text, f)
        /\ UNCHANGED storeVars

\* addCase called directly by a consumer of the context
DirectCases ==
    {[mrn |-> m, status |-> st] : m \in {"1", "2"},
        st \in {"complete", "incomplete_truth_only", "incomplete_note_only"}}

AddCase ==
    /\ nops < MaxOps
    /\ \E caseData \in DirectCases :
          /\ cases' = addCase(cases, caseData)
          /\ last' = [op |-> "addCase", caseData |-> caseData]
    /\ nops' = nops + 1
    /\ UNCHANGED <<closures, ledgerVars, testerVars, storeVars, pageVars, sessionVars>>

Init ==
    /\ cases = <<>>
    /\ closures = {}
    /\ last = [op |-> "none"]
    /\ nops = 0
    /\ testResults = <<>>
    /\ dbResults = <<>>
    /\ posts = {}
    /\ clock = 0
    /\ nextId = 1
    /\ savedPrompts = <<>>
    /\ dbPrompts = <<>>
    /\ promptPosts = {}
    /\ apiKey = ""
    /\ tester = [mounted |-> FALSE, mount |-> 0]
    /\ calls = {}
    /\ ncalls = 0
    /\ dbCases = <<>>
    /\ outbox = <<>>
    /\ improves = {}
    /\ ingestion = IngestionState
    /\ uploads = {}
    /\ flaggedMrns = <<>>
    /\ load = LoadDone

\* every call reads the state left by the previous call
NextSeq == IngestGold \/ IngestNote
SpecSeq == Init /\ [][NextSeq]_vars

\* calls may also come from handlers that started under an older render
Next == IngestGold \/ IngestNote \/ HoldClosure \/ DropClosure \/ StaleIngestGold \/ StaleIngestNote
Spec == Init /\ [][Next]_vars

\* ... and addCase may be called directly
NextRepo == Next \/ AddCase
SpecRepo == Init /\ [][NextRepo]_vars

(***************************************************************************)
(* The Test Run Ledger: addTestResult of DataContext.tsx and the           *)
(* /api/results endpoints of server.cjs (api/results/index.ts and          *)
(* api/results/[id].ts run the same statements).                           *)
(***************************************************************************)
\* a scored run as runTest hands it to addTestResult (the prediction had no reasoning)
RunA == [mrn |-> "1", model |-> "gemini-3-pro-preview", prompt_name |-> "Default Prompt",
         prompt_text |-> "prompt v1", primary_match |-> TRUE,
         cpt_recall |-> [num |-> 1, den |-> 1], missed_cpts |-> <<>>,
         hallucinated_cpts |-> <<>>, pred_primary |-> <<"N", "20.0">>,
         pred_cpts |-> <<<<"52356">>>>, gold_primary |-> <<"N", "20.0">>,
         gold_cpts |-> <<<<"52356">>>>]
Runs == {RunA}

\* `${Date.now()}-${Math.random().toString(36).substr(2, 9)}`: the random part is
\* taken to be fresh
generateId(now, fresh) == <<now, fresh>>

\* a plausible slip: the new run is appended
PrependAtEnd(newResult, prev) == Append(prev, newResult)

\* a plausible slip: only the latest run of a case is kept
PrependKeepingLatest(newResult, prev) ==
    <<newResult>> \o SelectSeq(prev, LAMBDA r : r.mrn /= newResult.mrn)

\* [newResult, ...prev]
Prepend(newResult, prev) == <<newResult>> \o prev

\* the record built by addTestResult
NewResult(result, now, fresh) ==
    Spread(result, [id |-> generateId(now, fresh), timestamp |-> now])

\* x || null
OrNull(x) == IF Truthy(x) THEN x ELSE Null

\* `list || []`: a missing code list is stored as the empty list
OrEmpty(x) == IF TruthyObj(x) THEN x ELSE <<>>

\* the row stored by INSERT INTO test_results
RowOf(result) ==
    [id |-> result.id,
     timestamp |-> result.timestamp,
     mrn |-> Get(result, "mrn"),
     model |-> Get(result, "model"),
     prompt_name |-> Get(result, "prompt_name"),
     prompt_text |-> OrNull(Get(result, "prompt_text")),
     primary_match |-> IF Get(result, "primary_match") = TRUE THEN 1 ELSE 0,
     cpt_recall |-> GetObj(result, "cpt_recall"),
     missed_cpts |-> OrEmpty(GetObj(result, "missed_cpts")),
     hallucinated_cpts |-> OrEmpty(GetObj(result, "hallucinated_cpts")),
     pred_primary |-> GetObj(result, "pred_primary"),
     pred_cpts |-> OrEmpty(GetObj(result, "pred_cpts")),
     gold_primary |-> GetObj(result, "gold_primary"),
     gold_cpts |-> OrEmpty(GetObj(result, "gold_cpts")),
     reasoning |-> OrNull(Get(result, "reasoning"))]

\* the object GET /api/results formats from a row
FormatRow(r) ==
    [id |-> r.id,
     timestamp |-> r.timestamp,
     mrn |-> r.mrn,
     model |-> r.model,
     prompt_name |-> r.prompt_name,
     prompt_text |-> r.prompt_text,
     primary_match |-> r.primary_match /= 0,
     cpt_recall |-> r.cpt_recall,
     missed_cpts |-> r.missed_cpts,
     hallucinated_cpts |-> r.hallucinated_cpts,
     pred_primary |-> r.pred_primary,
     pred_cpts |-> r.pred_cpts,
     gold_primary |-> r.gold_primary,
     gold_cpts |-> r.gold_cpts,
     reasoning |-> r.reasoning]

RowIds(rows) == {rows[i].id : i \in 1..Len(rows)}

\* INSERT: id is the PRIMARY KEY, a second row with the same id is refused
InsertRow(rows, result) ==
    IF result.id \in RowIds(rows) THEN rows ELSE Append(rows, RowOf(result))

\* a plausible slip: the statement has no WHERE clause
DeleteRowAll(rows, id) == <<>>

\* DELETE FROM test_results WHERE id = ?
DeleteRow(rows, id) == SelectSeq(rows, LAMBDA r : r.id /= id)

\* ORDER BY timestamp DESC
Ordered(rows, f) ==
    \A i, j \in 1..Len(rows) : i < j => rows[f[i]].timestamp >= rows[f[j]].timestamp

\* SELECT * FROM test_results ORDER BY timestamp DESC: SQL leaves the order of
\* rows with equal timestamps open, so every such order is a possible answer
Listings(rows) ==
    LET n == Len(rows)
        orders == {f \in [1..n -> 1..n] :
                      /\ \A i, j \in 1..n : f[i] = f[j] => i = j
                      /\ Ordered(rows, f)}
    IN {[i \in 1..n |-> FormatRow(rows[f[i]])] : f \in orders}

\* the clock advances by a millisecond
Tick ==
    /\ clock < MaxClock
    /\ clock' = clock + 1
    /\ UNCHANGED <<caseVars, last, nops, testResults, dbResults, posts, nextId, testerVars, storeVars, pageVars, sessionVars>>

\* addTestResult: prepend to the history and POST the record
AddTestResult ==
    /\ nextId <= MaxRuns
    /\ \E result \in Runs :
          LET newResult == NewResult(result, clock, nextId)
          IN /\ testResults' = Prepend(newResult, testResults)
             /\ posts' = posts \cup {newResult}
    /\ nextId' = nextId + 1
    /\ UNCHANGED <<caseVars, last, nops, dbResults, clock, testerVars, storeVars, pageVars, sessionVars>>

\* POST /api/results reaches the server
PostResult ==
    /\ \E result \in posts :
          /\ dbResults' = InsertRow(dbResults, result)
          /\ posts' = posts \ {result}
    /\ UNCHANGED <<caseVars, last, nops, testResults, clock, nextId, testerVars, storeVars, pageVars, sessionVars>>

\* the fetch is rejected: the error is logged and the record stays in memory only
PostFails ==
    /\ \E result \in posts : posts' = posts \ {result}
    /\ UNCHANGED <<caseVars, last, nops, testResults, dbResults, clock, nextId, testerVars, storeVars, pageVars, sessionVars>>

\* GET /api/results
GetResults ==
    /\ nops < MaxOps
    /\ \E rows \in Listings(dbResults) : last' = [op |-> "list", rows |-> rows]
    /\ nops' = nops + 1
    /\ UNCHANGED <<caseVars, testResults, dbResults, posts, clock, nextId, testerVars, storeVars, pageVars, sessionVars>>

\* ids a client may name: those it has seen and one that never existed
RequestIds == RowIds(dbResults) \cup RowIds(testResults) \cup {generateId(0, 0)}

\* DELETE /api/results/:id; `changes` is the row count stmt.run reports, which
\* the handler does not look at
DeleteResult ==
    /\ nops < MaxOps
    /\ \E id \in RequestIds :
          /\ dbResults' = DeleteRow(dbResults, id)
          /\ last' = [op |-> "delete", id |-> id, success |-> TRUE,
                      changes |-> Len(dbResults) - Len(DeleteRow(dbResults, id))]
    /\ nops' = nops + 1
    /\ UNCHANGED <<caseVars, testResults, posts, clock, nextId, testerVars, storeVars, pageVars, sessionVars>>

NextLedger == Tick \/ AddTestResult \/ PostResult \/ PostFails \/ GetResults \/ DeleteResult
SpecLedger == Init /\ [][NextLedger]_vars

(***************************************************************************)
(* utils.ts: calculateScore.  A JavaScript number that results from a      *)
(* division is kept as the exact fraction num/den; den = 0 stands for the  *)
(* NaN of 0/0.                                                             *)
(***************************************************************************)
Blank == " "

\* String.prototype.toLowerCase, on the letters that occur in the codes
LowerOf(t) == CASE t = "N" -> "n" [] t = "K" -> "k" [] t = "G" -> "g" [] OTHER -> t

toLowerCase(code) == [i \in 1..Len(code) |-> LowerOf(code[i])]

\* String.prototype.trim
trim(code) ==
    LET solid == {i \in 1..Len(code) : code[i] /= Blank}
    IN IF solid = {} THEN <<>>
       ELSE SubSeq(code, CHOOSE i \in solid : \A j \in solid : i <= j,
                         CHOOSE i \in solid : \A j \in solid : j <= i)

\* a plausible slip: the code is lower-cased and not trimmed
NormalizeNoTrim(c) == toLowerCase(c)

\* c.toLowerCase().trim()
Normalize(c) == trim(toLowerCase(c))

\* cpt_codes.map(normalize)
NormalizeAll(codes) == [i \in 1..Len(codes) |-> Normalize(codes[i])]

\* a plausible slip: an array is used where the code uses a Set
SetOfKeepAll(list) == list

\* new Set(list): the distinct elements in the order of their first insertion
RECURSIVE SetOf(_)
SetOf(list) ==
    IF list = <<>> THEN <<>>
    ELSE LET front == SetOf(SubSeq(list, 1, Len(list) - 1))
             x == list[Len(list)]
         IN IF \E i \in 1..Len(front) : front[i] = x THEN front ELSE Append(front, x)

\* set.has(c)
Has(set, c) == \E i \in 1..Len(set) : set[i] = c

Rat(n, d) == [num |-> n, den |-> d]
RatEq(a, b) == a.num * b.den = b.num * a.den
RatLess(a, b) == a.num * b.den < b.num * a.den
RatAdd(a, b) == Rat(a.num * b.den + b.num * a.den, a.den * b.den)

\* a plausible slip: the division is not guarded
RatioUnguarded(count, size) == Rat(count, size)

\* size > 0 ? count / size : 0
Ratio(count, size) == IF size > 0 THEN Rat(count, size) ELSE Rat(0, 1)

calculateScore(gold, pred) ==
    LET primaryMatch == Normalize(gold.primary_icd) = Normalize(pred.primary_icd)
        goldCpts == SetOf(NormalizeAll(gold.cpt_codes))
        predCpts == SetOf(NormalizeAll(pred.cpt_codes))
        matchedCpts == SelectSeq(goldCpts, LAMBDA c : Has(predCpts, c))
        missedCpts == SelectSeq(goldCpts, LAMBDA c : ~Has(predCpts, c))
        hallucinatedCpts == SelectSeq(predCpts, LAMBDA c : ~Has(goldCpts, c))
    IN [primary_match |-> primaryMatch,
        cpt_recall |-> Ratio(Len(matchedCpts), Len(goldCpts)),
        cpt_precision |-> Ratio(Len(matchedCpts), Len(predCpts)),
        matched_cpts |-> matchedCpts,
        missed_cpts |-> missedCpts,
        hallucinated_cpts |-> hallucinatedCpts]

\* a plausible slip: the prompt text is read when the call has resolved
ScoredRunLatePrompt(mrn, model, promptName, prompt, gold, prediction, score) ==
    [mrn |-> mrn,
     model |-> model,
     prompt_name |-> promptName,
     prompt_text |-> IF tester.mounted THEN tester.prompt ELSE prompt,
     primary_match |-> score.primary_match,
     cpt_recall |-> score.cpt_recall,
     missed_cpts |-> score.missed_cpts,
     hallucinated_cpts |-> score.hallucinated_cpts,
     pred_primary |-> prediction.primary_icd,
     pred_cpts |-> prediction.cpt_codes,
     gold_primary |-> gold.primary_icd,
     gold_cpts |-> gold.cpt_codes,
     reasoning |-> Get(prediction, "reasoning")]

\* the record runTest hands to addTestResult
ScoredRun(mrn, model, promptName, prompt, gold, prediction, score) ==
    [mrn |-> mrn,
     model |-> model,
     prompt_name |-> promptName,
     prompt_text |-> prompt,
     primary_match |-> score.primary_match,
     cpt_recall |-> score.cpt_recall,
     missed_cpts |-> score.missed_cpts,
     hallucinated_cpts |-> score.hallucinated_cpts,
     pred_primary |-> prediction.primary_icd,
     pred_cpts |-> prediction.cpt_codes,
     gold_primary |-> gold.primary_icd,
     gold_cpts |-> gold.cpt_codes,
     reasoning |-> Get(prediction, "reasoning")]

\* the per-run precision of the by-prompt aggregations
RunPrecision(result) ==
    IF Len(result.pred_cpts) > 0
    THEN Rat(Len(result.pred_cpts) - Len(result.hallucinated_cpts), Len(result.pred_cpts))
    ELSE Rat(0, 1)

\* inputs of the Scoring Engine
CptCodes == {<<"99214">>, <<Blank, "99214", Blank>>, <<"99214", "-", "25">>,
             <<"G", "0101">>, <<"g", "0101">>}
CodeLists == UNION {[1..n -> CptCodes] : n \in 0..MaxCodes}
GoldPrimaries == {<<"N", "20.0">>}
PredPrimaries == {<<Blank, "n", "20.0">>, <<"N", "20.1">>}
Golds ==
    {[primary_icd |-> p, secondary_icds |-> <<>>, cpt_codes |-> l, auditor_notes |-> ""] :
        p \in GoldPrimaries, l \in CodeLists}
Predictions ==
    {[primary_icd |-> p, secondary_icds |-> <<>>, cpt_codes |-> l, reasoning |-> "because"] :
        p \in PredPrimaries, l \in CodeLists}
Models == {"gemini-3-pro-preview"}

\* calculateScore applied to one gold / prediction pair, as runTest applies it;
\* the function has no state, so one application per behaviour covers it
Score ==
    /\ last.op = "none"
    /\ \E gold \in Golds, pred \in Predictions, model \in Models :
          LET score == calculateScore(gold, pred)
          IN last' = [op |-> "score", gold |-> gold, pred |-> pred, score |-> score,
                      run |-> ScoredRun("1", model, "Default Prompt", "prompt v1",
                                        gold, pred, score)]
    /\ UNCHANGED <<caseVars, nops, ledgerVars, testerVars, storeVars, pageVars, sessionVars>>

NextScore == Score
SpecScore == Init /\ [][NextScore]_vars

(***************************************************************************)
(* The aggregations over the run history: keyResults / bestResult of       *)
(* pages/CaseList.tsx and promptPerformance of the Analytics page.         *)
(***************************************************************************)
\* the pairs of elements of a list
Pairs(list) == {list[i] : i \in 1..Len(list)} \X {list[i] : i \in 1..Len(list)}

\* the sorted array of Array.prototype.sort, which is stable: before holds the
\* pairs <<a, b>> of which the comparator puts a in front of b
StableSort(list, before) ==
    LET n == Len(list)
        f == CHOOSE g \in [1..n -> 1..n] :
                 \A i, j \in 1..n :
                     i < j => /\ g[i] /= g[j]
                              /\ \/ <<list[g[i]], list[g[j]]>> \in before
                                 \/ /\ <<list[g[j]], list[g[i]]>> \notin before
                                    /\ g[i] < g[j]
    IN [i \in 1..n |-> list[f[i]]]

\* property names that are array indices, and their numeric values
IndexKeys == {"1", "2"}
IndexOf(k) == IF k = "1" THEN 1 ELSE 2

\* the key order of Object.values / Object.entries: array indices in ascending
\* numeric order first, then the other keys in the order of their insertion
ObjectKeys(keys) ==
    LET indices == SelectSeq(keys, LAMBDA k : k \in IndexKeys)
    IN StableSort(indices, {p \in Pairs(indices) : IndexOf(p[1]) < IndexOf(p[2])})
           \o SelectSeq(keys, LAMBDA k : k \notin IndexKeys)

\* the entry keyResults pushes for a run
PromptResultOf(result) ==
    [promptName |-> result.prompt_name,
     primaryMatch |-> result.primary_match,
     predPrimary |-> result.pred_primary,
     cptRecall |-> result.cpt_recall,
     missedCpts |-> result.missed_cpts,
     hallucinatedCpts |-> result.hallucinated_cpts,
     timestamp |-> result.timestamp]

\* a.mrn.localeCompare(b.mrn) < 0, on the record numbers that occur
MrnBefore(a, b) == IndexOf(a.mrn) < IndexOf(b.mrn)

keyResults(results) ==
    LET mrns == ObjectKeys(SetOf([i \in 1..Len(results) |-> results[i].mrn]))
        runsOf(m) == SelectSeq(results, LAMBDA r : r.mrn = m)
        pushed(m) == [i \in 1..Len(runsOf(m)) |-> PromptResultOf(runsOf(m)[i])]
        groupOf(m) ==
            [mrn |-> m,
             goldPrimary |-> runsOf(m)[1].gold_primary,
             goldCpts |-> runsOf(m)[1].gold_cpts,
             promptResults |->
                 StableSort(pushed(m),
                            {p \in Pairs(pushed(m)) : p[1].timestamp > p[2].timestamp})]
        groups == [i \in 1..Len(mrns) |-> groupOf(mrns[i])]
    IN StableSort(groups, {p \in Pairs(groups) : MrnBefore(p[1], p[2])})

\* (primaryMatch ? 1 : 0) + cptRecall
RunScore(r) == RatAdd(IF r.primaryMatch THEN Rat(1, 1) ELSE Rat(0, 1), r.cptRecall)

\* a plausible slip: a later run with an equal score replaces the best
BetterOrEqual(curr, best) == ~RatLess(RunScore(curr), RunScore(best))

\* currScore > bestScore
Better(curr, best) == RatLess(RunScore(best), RunScore(curr))

\* promptResults.reduce((best, curr) => ..., promptResults[0])
RECURSIVE BestFrom(_, _, _)
BestFrom(list, i, best) ==
    IF i > Len(list) THEN best
    ELSE BestFrom(list, i + 1, IF Better(list[i], best) THEN list[i] ELSE best)

bestResult(group) == BestFrom(group.promptResults, 1, group.promptResults[1])

\* Math.round(x * 100) for x >= 0
RoundPercent(x) == (200 * x.num + x.den) \div (2 * x.den)

RatHalf(x) == Rat(x.num, 2 * x.den)
RatOver(x, n) == Rat(x.num, x.den * n)

\* testResults.forEach of promptPerformance: stats maps a prompt name to its
\* accumulator, names lists the property names in the order of their creation
RECURSIVE PerformanceFold(_, _, _, _)
PerformanceFold(results, i, names, stats) ==
    IF i > Len(results) THEN [names |-> names, stats |-> stats]
    ELSE LET result == results[i]
             promptName == result.prompt_name
             isNew == promptName \notin DOMAIN stats
             old == IF isNew
                    THEN [name |-> promptName, tests |-> 0, primaryMatchRate |-> 0,
                          cptRecall |-> Rat(0, 1), cptPrecision |-> Rat(0, 1),
                          timestamp |-> result.timestamp]
                    ELSE stats[promptName]
             new == [name |-> old.name,
                     tests |-> old.tests + 1,
                     primaryMatchRate |-> old.primaryMatchRate
                                              + (IF result.primary_match THEN 1 ELSE 0),
                     cptRecall |-> RatAdd(old.cptRecall, result.cpt_recall),
                     cptPrecision |-> RatAdd(old.cptPrecision, RunPrecision(result)),
                     timestamp |-> IF result.timestamp > old.timestamp
                                   THEN result.timestamp ELSE old.timestamp]
         IN PerformanceFold(results, i + 1,
                            IF isNew THEN Append(names, promptName) ELSE names,
                            [n \in DOMAIN stats \cup {promptName} |->
                                IF n = promptName THEN new ELSE stats[n]])

\* the chart row of one prompt
PerformanceRow(s) ==
    [name |-> s.name,
     tests |-> s.tests,
     primaryMatchPct |-> RoundPercent(Rat(s.primaryMatchRate, s.tests)),
     cptRecallPct |-> RoundPercent(RatOver(s.cptRecall, s.tests)),
     cptPrecisionPct |-> RoundPercent(RatOver(s.cptPrecision, s.tests)),
     overallScore |-> RoundPercent(RatHalf(RatAdd(Rat(s.primaryMatchRate, s.tests),
                                                  RatOver(s.cptRecall, s.tests)))),
     timestamp |-> s.timestamp]

promptPerformance(results) ==
    LET folded == PerformanceFold(results, 1, <<>>, <<>>)
        keys == ObjectKeys(folded.names)
        rows == [i \in 1..Len(keys) |-> PerformanceRow(folded.stats[keys[i]])]
    IN StableSort(rows, {p \in Pairs(rows) : p[1].timestamp < p[2].timestamp})

\* scored runs for the aggregations: two record numbers, three prompt names,
\* scores (match, 0), (no match, 1) and (match, 1/2)
PromptNames == {"Default Prompt", "1", "2"}
AnalyticsGold ==
    [primary_icd |-> <<"N", "20.0">>, secondary_icds |-> <<>>,
     cpt_codes |-> <<<<"99214">>, <<"G", "0101">>>>, auditor_notes |-> ""]
AnalyticsPredictions ==
    {[primary_icd |-> <<Blank, "n", "20.0">>, secondary_icds |-> <<>>,
      cpt_codes |-> <<>>, reasoning |-> "because"],
     [primary_icd |-> <<"N", "20.1">>, secondary_icds |-> <<>>,
      cpt_codes |-> <<<<"99214">>, <<"g", "0101">>>>, reasoning |-> "because"],
     [primary_icd |-> <<Blank, "n", "20.0">>, secondary_icds |-> <<>>,
      cpt_codes |-> <<<<"99214">>, <<"99214">>>>, reasoning |-> "because"]}
AnalyticsRuns ==
    {ScoredRun(k[1], "gemini-3-pro-preview", k[2], "prompt v1", AnalyticsGold, pred,
               calculateScore(AnalyticsGold, pred)) :
        k \in ({"1", "2"} \X {"Default Prompt"}) \cup ({"1"} \X PromptNames),
        pred \in AnalyticsPredictions}

\* addTestResult, called by runTest with a scored run
AddScoredResult ==
    /\ nextId <= MaxRuns
    /\ \E result \in AnalyticsRuns :
          LET newResult == NewResult(result, clock, nextId)
          IN /\ testResults' = Prepend(newResult, testResults)
             /\ posts' = posts \cup {newResult}
    /\ nextId' = nextId + 1
    /\ UNCHANGED <<caseVars, last, nops, dbResults, clock, testerVars, storeVars, pageVars, sessionVars>>

NextAnalytics == Tick \/ AddScoredResult
SpecAnalytics == Init /\ [][NextAnalytics]_vars

(***************************************************************************)
(* The Prompt Tester page (runTest), savePrompt of DataContext.tsx and the *)
(* /api/prompts endpoint of server.cjs.  The page is a route element: it   *)
(* is unmounted when the operator navigates away and mounted with fresh    *)
(* component state when the operator comes back, while a model call that   *)
(* was issued by the earlier mount stays in flight.                        *)
(***************************************************************************)
DefaultPrompt == "prompt v1"
\* a prompt name is a sequence of tokens (a word, " v", a number), so that
\* startsWith and the template `Improved v${version}` are computed
DefaultPromptName == <<"Default Prompt">>
PromptTexts == {DefaultPrompt, "prompt v2"}
ApiKeys == {"", "key"}
SelectError == "Please select a case and ensure API key is set."
RunError == "run failed"

\* getCompleteCases()
getCompleteCases(list) == SelectSeq(list, LAMBDA c : c.status = "complete")

\* useState initial values of the page
TesterState(mount, list) ==
    [mounted |-> TRUE,
     mount |-> mount,
     selectedMRN |-> IF getCompleteCases(list) /= <<>> THEN getCompleteCases(list)[1].mrn
                     ELSE "",
     promptName |-> DefaultPromptName,
     prompt |-> DefaultPrompt,
     status |-> "idle",
     error |-> "",
     improvingPrompt |-> FALSE,
     improvedPrompt |-> Null]

\* the config panel with the run button is rendered
PanelShown == tester.mounted /\ getCompleteCases(cases) /= <<>>

\* savedPrompts.find(p => p.name === name)
FindPrompt(list, name) ==
    LET hits == {i \in 1..Len(list) : list[i].name = name}
    IN IF hits = {} THEN NoObj
       ELSE list[CHOOSE i \in hits : \A j \in hits : i <= j]

\* savePrompt: `closure` is the savedPrompts the callback was created with, `prev`
\* the state its updater is applied to; post is the body sent to /api/prompts
savePrompt(closure, prev, name, text, now, fresh) ==
    LET existing == FindPrompt(closure, name)
    IN IF existing /= NoObj
       THEN [list |-> [i \in 1..Len(prev) |->
                          IF prev[i].name = name THEN Spread(prev[i], [text |-> text])
                          ELSE prev[i]],
             post |-> [id |-> existing.id, name |-> name, text |-> text,
                       createdAt |-> existing.createdAt],
             ids |-> 0]
       ELSE LET newPrompt == [id |-> generateId(now, fresh), name |-> name, text |-> text,
                              createdAt |-> now]
            IN [list |-> Append(prev, newPrompt), post |-> newPrompt, ids |-> 1]

\* INSERT INTO saved_prompts ... ON CONFLICT(name) DO UPDATE SET text = excluded.text;
\* a row with the same id under another name is refused (id is the PRIMARY KEY)
UpsertPrompt(rows, body) ==
    IF \E i \in 1..Len(rows) : rows[i].name = body.name
    THEN [i \in 1..Len(rows) |->
             IF rows[i].name = body.name THEN Spread(rows[i], [text |-> body.text])
             ELSE rows[i]]
    ELSE IF \E i \in 1..Len(rows) : rows[i].id = body.id
         THEN rows
         ELSE Append(rows, [id |-> body.id, name |-> body.name, text |-> body.text,
                            created_at |-> body.createdAt])

\* what the model call can come back with
WellFormed ==
    [primary_icd |-> <<Blank, "n", "20.0">>, secondary_icds |-> <<>>,
     cpt_codes |-> <<<<"52356">>>>, reasoning |-> "because"]
NoCodeList == [primary_icd |-> <<"N", "20.0">>, reasoning |-> "because"]
Responses ==
    {[kind |-> "rejected"], [kind |-> "unparseable"],
     [kind |-> "parsed", prediction |-> WellFormed],
     [kind |-> "parsed", prediction |-> NoCodeList]}

\* calculateScore returns: both arguments have a primary code and a code list
Scorable(gold, prediction) ==
    /\ gold /= NoObj /\ {"primary_icd", "cpt_codes"} \subseteq DOMAIN gold
    /\ gold.primary_icd /= Undef
    /\ {"primary_icd", "cpt_codes"} \subseteq DOMAIN prediction

\* the try block of runTest ends in the catch clause
Throws(call, response) ==
    \/ response.kind /= "parsed"
    \/ ~Scorable(GetObj(call.selectedCase, "ground_truth"), response.prediction)

\* a plausible slip: the prompt is saved before the model call is awaited, so a
\* run that fails has saved it
AfterCatchPromptSaved(call, prompts, now, fresh) ==
    savePrompt(call.savedPrompts, prompts, call.promptName, call.prompt, now, fresh)

\* catch (err) { setError(...); setStatus('error') }: the saved prompts stay
AfterCatch(call, prompts, now, fresh) ==
    [list |-> prompts, post |-> NoObj, ids |-> 0]

\* the component state is set only while the mount that issued the call lives
SetState(call, status, error) ==
    IF tester.mounted /\ tester.mount = call.mount
    THEN [tester EXCEPT !.status = status, !.error = error]
    ELSE tester

MountTester ==
    /\ ~tester.mounted
    /\ tester.mount < MaxMounts
    /\ tester' = TesterState(tester.mount + 1, cases)
    /\ UNCHANGED <<caseVars, last, nops, ledgerVars, savedPrompts, dbPrompts, promptPosts,
                   apiKey, calls, ncalls,
                   storeVars, pageVars, sessionVars>>

UnmountTester ==
    /\ tester.mounted
    /\ tester' = [mounted |-> FALSE, mount |-> tester.mount]
    /\ UNCHANGED <<caseVars, last, nops, ledgerVars, savedPrompts, dbPrompts, promptPosts,
                   apiKey, calls, ncalls,
                   storeVars, pageVars, sessionVars>>

\* the case select
SelectCase ==
    /\ PanelShown
    /\ \E i \in 1..Len(getCompleteCases(cases)) :
          /\ tester.selectedMRN /= getCompleteCases(cases)[i].mrn
          /\ tester' = [tester EXCEPT !.selectedMRN = getCompleteCases(cases)[i].mrn]
    /\ UNCHANGED <<caseVars, last, nops, ledgerVars, savedPrompts, dbPrompts, promptPosts,
                   apiKey, calls, ncalls,
                   storeVars, pageVars, sessionVars>>

\* the system prompt textarea
EditPrompt ==
    /\ PanelShown
    /\ \E text \in PromptTexts :
          /\ text /= tester.prompt
          /\ tester' = [tester EXCEPT !.prompt = text]
    /\ UNCHANGED <<caseVars, last, nops, ledgerVars, savedPrompts, dbPrompts, promptPosts,
                   apiKey, calls, ncalls,
                   storeVars, pageVars, sessionVars>>

\* setApiKey
SetApiKey ==
    /\ \E key \in ApiKeys : key /= apiKey /\ apiKey' = key
    /\ UNCHANGED <<caseVars, last, nops, ledgerVars, savedPrompts, dbPrompts, promptPosts,
                   tester, calls, ncalls,
                   storeVars, pageVars, sessionVars>>

\* a click on the run button, which is enabled: runTest up to its await
RunTest ==
    /\ PanelShown
    /\ tester.status /= "loading" /\ Truthy(apiKey)
    /\ ncalls < MaxCalls
    /\ LET selectedCase == FindCase(getCompleteCases(cases), tester.selectedMRN)
       IN IF ~TruthyObj(selectedCase) \/ ~Truthy(apiKey)
          THEN /\ tester' = [tester EXCEPT !.error = SelectError]
               /\ UNCHANGED <<calls, ncalls>>
          ELSE /\ tester' = [tester EXCEPT !.status = "loading", !.error = ""]
               /\ calls' = calls \cup
                     {[id |-> ncalls + 1, mount |-> tester.mount,
                       selectedCase |-> selectedCase, promptName |-> tester.promptName,
                       prompt |-> tester.prompt, savedPrompts |-> savedPrompts]}
               /\ ncalls' = ncalls + 1
    /\ UNCHANGED <<caseVars, last, nops, ledgerVars, savedPrompts, dbPrompts, promptPosts,
                   apiKey,
                   storeVars, pageVars, sessionVars>>

\* the model call resolves and runTest runs to its end
RunTestResolves ==
    \E call \in calls, response \in Responses, model \in Models :
        /\ calls' = calls \ {call}
        /\ last' = [op |-> "run_test", call |-> call.id, response |-> response]
        /\ IF Throws(call, response)
           THEN LET saved == AfterCatch(call, savedPrompts, clock, nextId)
                IN /\ tester' = SetState(call, "error", RunError)
                   /\ savedPrompts' = saved.list
                   /\ promptPosts' = IF saved.post = NoObj THEN promptPosts
                                     ELSE promptPosts \cup {saved.post}
                   /\ nextId' = nextId + saved.ids
                   /\ UNCHANGED <<testResults, posts>>
           ELSE LET gold == call.selectedCase.ground_truth
                    score == calculateScore(gold, response.prediction)
                    newResult == NewResult(ScoredRun(call.selectedCase.mrn, model,
                                                     call.promptName, call.prompt, gold,
                                                     response.prediction, score),
                                           clock, nextId)
                    saved == savePrompt(call.savedPrompts, savedPrompts, call.promptName,
                                        call.prompt, clock, nextId + 1)
                IN /\ testResults' = Prepend(newResult, testResults)
                   /\ posts' = posts \cup {newResult}
                   /\ savedPrompts' = saved.list
                   /\ promptPosts' = promptPosts \cup {saved.post}
                   /\ nextId' = nextId + 1 + saved.ids
                   /\ tester' = SetState(call, "success", tester.error)
        /\ UNCHANGED <<caseVars, nops, dbResults, clock, dbPrompts, apiKey, ncalls,
                   storeVars, pageVars, sessionVars>>

\* POST /api/prompts reaches the server
PostPrompt ==
    /\ \E body \in promptPosts :
          /\ dbPrompts' = UpsertPrompt(dbPrompts, body)
          /\ promptPosts' = promptPosts \ {body}
    /\ UNCHANGED <<caseVars, last, nops, ledgerVars, savedPrompts, apiKey, tester, calls,
                   ncalls,
                   storeVars, pageVars, sessionVars>>

\* the fetch is rejected: the error is logged and the prompt stays in memory only
PostPromptFails ==
    /\ \E body \in promptPosts : promptPosts' = promptPosts \ {body}
    /\ UNCHANGED <<caseVars, last, nops, ledgerVars, savedPrompts, dbPrompts, apiKey, tester,
                   calls, ncalls,
                   storeVars, pageVars, sessionVars>>

\* the repository changes while the page is around: the note of the case arrives,
\* and its ground truth is ingested again
TesterIngestNote ==
    NoteCall(cases, <<TokMrn, "1", TokWord>>, "note.pdf") /\ UNCHANGED storeVars
TesterIngestGold ==
    GoldCall(cases, <<EntryB>>, "audit.pdf", "Urology") /\ UNCHANGED storeVars

\* the session starts with the ground truth of one case ingested
InitTester ==
    /\ cases = ingestAuditEntries(<<>>, <<>>, <<EntryA>>, "audit.pdf", "Urology").cases
    /\ closures = {}
    /\ last = [op |-> "none"]
    /\ nops = 0
    /\ testResults = <<>>
    /\ dbResults = <<>>
    /\ posts = {}
    /\ clock = 0
    /\ nextId = 1
    /\ savedPrompts = <<>>
    /\ dbPrompts = <<>>
    /\ promptPosts = {}
    /\ apiKey = ""
    /\ tester = [mounted |-> FALSE, mount |-> 0]
    /\ calls = {}
    /\ ncalls = 0
    /\ dbCases = <<>>
    /\ outbox = <<>>
    /\ improves = {}
    /\ ingestion = IngestionState
    /\ uploads = {}
    /\ flaggedMrns = <<>>
    /\ load = LoadDone

NextTester ==
    \/ MountTester \/ UnmountTester \/ SelectCase \/ EditPrompt \/ SetApiKey
    \/ RunTest \/ RunTestResolves \/ PostPrompt \/ PostPromptFails
    \/ PostResult \/ PostFails
    \/ TesterIngestNote \/ TesterIngestGold
SpecTester == InitTester /\ [][NextTester]_vars

(***************************************************************************)
(* utils.ts: extractMRN applied to every text of up to MaxText tokens.     *)
(***************************************************************************)
TextTokens == {TokId, TokMrn, TokMedRec, TokWord} \cup DigitRuns
Texts == UNION {[1..n -> TextTokens] : n \in 0..MaxText}

Extract ==
    /\ last.op = "none"
    /\ \E text \in Texts : last' = [op |-> "extract", text |-> text, mrn |-> extractMRN(text)]
    /\ UNCHANGED <<caseVars, nops, ledgerVars, testerVars, storeVars, pageVars, sessionVars>>

NextExtract == Extract
SpecExtract == Init /\ [][NextExtract]_vars

(***************************************************************************)
(* The flagged keys of DataContext.tsx and the improvement request that    *)
(* improvePrompt of geminiService.ts builds from the ledger and the        *)
(* flagged cases.  The request is kept as a record of the values that are  *)
(* interpolated into the text, section by section.                         *)
(***************************************************************************)
\* a plausible slip: the toggle only ever adds
toggleFlaggedMrnAddOnly(prev, mrn) ==
    IF Has(prev, mrn) THEN prev ELSE Append(prev, mrn)

\* newSet.has(mrn) ? newSet.delete(mrn) : newSet.add(mrn); the Set is kept as the
\* list of its keys in insertion order
toggleFlaggedMrn(prev, mrn) ==
    IF Has(prev, mrn) THEN SelectSeq(prev, LAMBDA k : k /= mrn) ELSE Append(prev, mrn)

\* setFlaggedMrns(new Set())
clearFlaggedMrns == <<>>

\* Array.from(flaggedMrns).map(...).filter(c => c.rawText)
getFlaggedCasesWithNotes(flags, list, results) ==
    LET flagged == [i \in 1..Len(flags) |->
                       LET caseData == FindCase(list, flags[i])
                       IN [mrn |-> flags[i],
                           rawText |-> GetText(caseData, "raw_text"),
                           groundTruth |-> GetObj(caseData, "ground_truth"),
                           testResults |-> SelectSeq(results, LAMBDA r : r.mrn = flags[i])]]
    IN SelectSeq(flagged, LAMBDA c : TruthyText(c.rawText))

\* x || alt, for a text, a code or a list that may be absent
OrElse(x, alt) == IF x = Undef \/ x = Null \/ x = <<>> THEN alt ELSE x

\* list.join(', ') || alt: an absent or empty list is rendered as alt
JoinOr(list, alt) == IF list = Undef \/ list = <<>> THEN <<alt>> ELSE list

\* lists.flat()
RECURSIVE Flat(_)
Flat(lists) ==
    IF lists = <<>> THEN <<>> ELSE Flat(SubSeq(lists, 1, Len(lists) - 1)) \o lists[Len(lists)]

\* the testHistory built by handleImprovePrompt
TestHistoryOf(results) ==
    [i \in 1..Len(results) |->
        [primary_match |-> results[i].primary_match,
         missed_cpts |-> results[i].missed_cpts,
         hallucinated_cpts |-> results[i].hallucinated_cpts,
         gold_primary |-> results[i].gold_primary,
         pred_primary |-> results[i].pred_primary,
         gold_cpts |-> results[i].gold_cpts,
         pred_cpts |-> results[i].pred_cpts]]

\* the focusCases built by handleImprovePrompt
FocusCasesOf(flaggedCases) ==
    [i \in 1..Len(flaggedCases) |->
        [mrn |-> flaggedCases[i].mrn,
         rawText |-> flaggedCases[i].rawText,
         groundTruth |-> flaggedCases[i].groundTruth,
         testResults |->
            [j \in 1..Len(flaggedCases[i].testResults) |->
                [primary_match |-> flaggedCases[i].testResults[j].primary_match,
                 missed_cpts |-> flaggedCases[i].testResults[j].missed_cpts,
                 hallucinated_cpts |-> flaggedCases[i].testResults[j].hallucinated_cpts,
                 gold_primary |-> flaggedCases[i].testResults[j].gold_primary,
                 pred_primary |-> flaggedCases[i].testResults[j].pred_primary]]]]

\* rawText.substring(0, 2000) and the mark that follows a longer text
ExcerptLimit == 2000
Excerpt(text) ==
    IF Len(text) > ExcerptLimit THEN SubSeq(text, 1, ExcerptLimit) \o <<"...[truncated]">>
    ELSE text

\* a plausible slip: the last listed run of the case is shown
FocusSectionOldest(fc) ==
    LET latestTest == IF fc.testResults = <<>> THEN NoObj
                      ELSE fc.testResults[Len(fc.testResults)]
    IN [mrn |-> fc.mrn,
        primary_icd |-> OrElse(Get(fc.groundTruth, "primary_icd"), <<"N/A">>),
        cpt_codes |-> JoinOr(Get(fc.groundTruth, "cpt_codes"), "N/A"),
        pred_primary |-> OrElse(Get(latestTest, "pred_primary"), <<"N/A">>),
        primary_match |-> Get(latestTest, "primary_match") = TRUE,
        missed |-> JoinOr(Get(latestTest, "missed_cpts"), "None"),
        hallucinated |-> JoinOr(Get(latestTest, "hallucinated_cpts"), "None"),
        note |-> Excerpt(fc.rawText)]

\* one `### Focus Case` section
FocusSection(fc) ==
    LET latestTest == IF fc.testResults = <<>> THEN NoObj ELSE fc.testResults[1]
    IN [mrn |-> fc.mrn,
        primary_icd |-> OrElse(Get(fc.groundTruth, "primary_icd"), <<"N/A">>),
        cpt_codes |-> JoinOr(Get(fc.groundTruth, "cpt_codes"), "N/A"),
        pred_primary |-> OrElse(Get(latestTest, "pred_primary"), <<"N/A">>),
        primary_match |-> Get(latestTest, "primary_match") = TRUE,
        missed |-> JoinOr(Get(latestTest, "missed_cpts"), "None"),
        hallucinated |-> JoinOr(Get(latestTest, "hallucinated_cpts"), "None"),
        note |-> Excerpt(fc.rawText)]

\* the `## PRIORITY FOCUS CASES` section: absent when no focus case was passed
FocusCasesSection(focusCases) == [i \in 1..Len(focusCases) |-> FocusSection(focusCases[i])]

\* ((primaryMatches / totalTests) * 100).toFixed(1), in tenths of a percent
MatchRate(primaryMatches, totalTests) ==
    (2000 * primaryMatches + totalTests) \div (2 * totalTests)

\* a plausible slip: the last runs of the history are listed
DetailedOldest(testHistory) ==
    IF Len(testHistory) > 10 THEN SubSeq(testHistory, Len(testHistory) - 9, Len(testHistory))
    ELSE testHistory

\* testHistory.slice(0, 10)
DetailLimit == 10
Detailed(testHistory) ==
    IF Len(testHistory) > DetailLimit THEN SubSeq(testHistory, 1, DetailLimit) ELSE testHistory

\* one `Test ${i + 1}` entry of the detailed results
DetailEntry(t) ==
    [gold_primary |-> t.gold_primary,
     pred_primary |-> t.pred_primary,
     primary_match |-> t.primary_match,
     gold_cpts |-> t.gold_cpts,
     pred_cpts |-> t.pred_cpts,
     missed |-> JoinOr(t.missed_cpts, "None"),
     hallucinated |-> JoinOr(t.hallucinated_cpts, "None")]

\* the analysisPrompt of improvePrompt
analysisPrompt(currentPrompt, testHistory, focusCases) ==
    LET totalTests == Len(testHistory)
        primaryMatches == Len(SelectSeq(testHistory, LAMBDA t : t.primary_match))
        allMissedCpts == Flat([i \in 1..Len(testHistory) |-> testHistory[i].missed_cpts])
        allHallucinatedCpts ==
            Flat([i \in 1..Len(testHistory) |-> testHistory[i].hallucinated_cpts])
        listed == Detailed(testHistory)
    IN [prompt |-> currentPrompt,
        totalTests |-> totalTests,
        matchRate |-> MatchRate(primaryMatches, totalTests),
        missed |-> JoinOr(SetOf(allMissedCpts), "None"),
        hallucinated |-> JoinOr(SetOf(allHallucinatedCpts), "None"),
        detailed |-> [i \in 1..Len(listed) |-> DetailEntry(listed[i])],
        focus |-> FocusCasesSection(focusCases)]

\* the request handleImprovePrompt sends for the state it runs in
ImproveRequest ==
    analysisPrompt(tester.prompt, TestHistoryOf(testResults),
                   FocusCasesOf(getFlaggedCasesWithNotes(flaggedMrns, cases, testResults)))

\* the flag button of a row of the results table of the Case List
ToggleFlag ==
    /\ \E i \in 1..Len(testResults) :
          /\ flaggedMrns' = toggleFlaggedMrn(flaggedMrns, testResults[i].mrn)
          /\ last' = [op |-> "toggle", mrn |-> testResults[i].mrn]
    /\ UNCHANGED <<caseVars, nops, ledgerVars, testerVars, storeVars, pageVars, load>>

\* the clear button of the flagged banner, which is shown while a key is flagged
ClearFlags ==
    /\ Len(flaggedMrns) > 0
    /\ flaggedMrns' = clearFlaggedMrns
    /\ last' = [op |-> "clear"]
    /\ UNCHANGED <<caseVars, nops, ledgerVars, testerVars, storeVars, pageVars, load>>

(***************************************************************************)
(* The improvement sub-flow of the Prompt Tester page (handleImprovePrompt *)
(* and applyImprovedPrompt), and deletePrompt of DataContext.tsx.          *)
(***************************************************************************)
NoTestsError == "Run some tests first to generate improvement suggestions."
KeyError == "Gemini API key not found. Please set it in settings."
ImproveError == "improve failed"

\* what the improve call can come back with: response.text().trim()
ImprovedTexts == {"prompt v3", ""}
ImproveResponses == {[kind |-> "rejected"]} \cup {[kind |-> "text", text |-> t] : t \in ImprovedTexts}

\* names the operator typed into the prompt name input
TypedNames == {DefaultPromptName, <<"Improved">>, <<"Improved", " v", 2>>}

\* p.name.startsWith('Improved')
StartsWithImproved(name) == Len(name) >= 1 /\ name[1] = "Improved"

\* new Set(savedPrompts.filter(...).map(p => p.name)).size + 1
NextVersion(prompts) ==
    Cardinality({prompts[i].name : i \in {j \in 1..Len(prompts) :
                                            StartsWithImproved(prompts[j].name)}}) + 1

\* `Improved v${version}`
ImprovedName(version) == <<"Improved", " v", version>>

\* a plausible slip: the candidate is installed without being cleared
AppliedStateKept(newName) ==
    [tester EXCEPT !.prompt = tester.improvedPrompt, !.promptName = newName]

\* setPrompt, setPromptName, setImprovedPrompt(null)
AppliedState(newName) ==
    [tester EXCEPT !.prompt = tester.improvedPrompt, !.promptName = newName,
                   !.improvedPrompt = Null]

\* a plausible slip: the candidate is installed as soon as the call resolves
ImprovedStateInstalled(call, response) ==
    IF ~(tester.mounted /\ tester.mount = call.mount) THEN tester
    ELSE IF response.kind = "text"
         THEN [tester EXCEPT !.prompt = response.text, !.improvedPrompt = response.text,
                             !.improvingPrompt = FALSE]
         ELSE [tester EXCEPT !.error = ImproveError, !.improvingPrompt = FALSE]

\* setImprovedPrompt(improved) or catch: setError; finally: setImprovingPrompt(false);
\* the component state is set only while the mount that issued the call lives
ImprovedState(call, response) ==
    IF ~(tester.mounted /\ tester.mount = call.mount) THEN tester
    ELSE IF response.kind = "text"
         THEN [tester EXCEPT !.improvedPrompt = response.text, !.improvingPrompt = FALSE]
         ELSE [tester EXCEPT !.error = ImproveError, !.improvingPrompt = FALSE]

\* a click on the improve button, which is enabled: handleImprovePrompt up to its
\* await; improvePrompt raises before any request when there is no credential
ImprovePrompt ==
    /\ PanelShown
    /\ ~tester.improvingPrompt /\ Len(testResults) /= 0
    /\ IF Len(testResults) = 0
       THEN /\ tester' = [tester EXCEPT !.error = NoTestsError]
            /\ UNCHANGED improves
       ELSE IF ~Truthy(apiKey)
       THEN /\ tester' = [tester EXCEPT !.improvingPrompt = FALSE, !.improvedPrompt = Null,
                                         !.error = KeyError]
            /\ UNCHANGED improves
       ELSE /\ tester' = [tester EXCEPT !.improvingPrompt = TRUE, !.improvedPrompt = Null,
                                         !.error = ""]
            /\ improves' = improves \cup {[mount |-> tester.mount, request |-> ImproveRequest]}
    /\ UNCHANGED <<caseVars, last, nops, ledgerVars, savedPrompts, dbPrompts, promptPosts, apiKey,
                   calls, ncalls, storeVars, ingestion, uploads, sessionVars>>

\* the improve call resolves and handleImprovePrompt runs to its end
ImproveResolves ==
    /\ \E call \in improves, response \in ImproveResponses :
          /\ improves' = improves \ {call}
          /\ tester' = ImprovedState(call, response)
    /\ UNCHANGED <<caseVars, last, nops, ledgerVars, savedPrompts, dbPrompts, promptPosts, apiKey,
                   calls, ncalls, storeVars, ingestion, uploads, sessionVars>>

\* the Apply button of the improved-prompt section
ApplyImprovedPrompt ==
    /\ PanelShown
    /\ Truthy(tester.improvedPrompt)
    /\ nops < MaxApplied
    /\ LET newName == ImprovedName(NextVersion(savedPrompts))
           saved == savePrompt(savedPrompts, savedPrompts, newName, tester.improvedPrompt,
                               clock, nextId)
       IN /\ tester' = AppliedState(newName)
          /\ savedPrompts' = saved.list
          /\ promptPosts' = promptPosts \cup {saved.post}
          /\ nextId' = nextId + saved.ids
    /\ last' = [op |-> "apply"]
    /\ nops' = nops + 1
    /\ UNCHANGED <<caseVars, testResults, dbResults, posts, clock, dbPrompts, apiKey,
                   calls, ncalls, storeVars, pageVars, sessionVars>>

\* the Dismiss button of the improved-prompt section
DismissImproved ==
    /\ PanelShown
    /\ Truthy(tester.improvedPrompt)
    /\ tester' = [tester EXCEPT !.improvedPrompt = Null]
    /\ last' = [op |-> "dismiss"]
    /\ UNCHANGED <<caseVars, nops, ledgerVars, savedPrompts, dbPrompts, promptPosts, apiKey,
                   calls, ncalls, storeVars, pageVars, sessionVars>>

\* the updater of deletePrompt
deletePrompt(prev, id) == SelectSeq(prev, LAMBDA p : p.id /= id)

\* DELETE FROM saved_prompts WHERE id = ?
DeletePromptRow(rows, id) == SelectSeq(rows, LAMBDA r : r.id /= id)

\* deletePrompt(id), called by a consumer of the context with the id of a saved prompt
DeletePrompt ==
    /\ \E i \in 1..Len(savedPrompts) :
          /\ savedPrompts' = deletePrompt(savedPrompts, savedPrompts[i].id)
          /\ outbox' = Append(outbox, [method |-> "DELETE", path |-> "prompts",
                                       id |-> savedPrompts[i].id])
    /\ UNCHANGED <<caseVars, last, nops, ledgerVars, dbPrompts, promptPosts, apiKey, tester, calls,
                   ncalls, dbCases, pageVars, sessionVars>>

\* the fetch is rejected: the error is logged and the row stays in the table
DeletePromptFails ==
    /\ \E i \in 1..Len(outbox) :
          /\ outbox[i].method = "DELETE"
          /\ outbox' = SubSeq(outbox, 1, i - 1) \o SubSeq(outbox, i + 1, Len(outbox))
    /\ UNCHANGED <<caseVars, last, nops, ledgerVars, savedPrompts, dbPrompts, promptPosts,
                   apiKey, tester, calls, ncalls, dbCases, pageVars, sessionVars>>

\* the saved prompts a session can have when the improvement starts: up to two
\* prompts saved by earlier runs under names the operator typed
SavedNameLists ==
    {names \in UNION {[1..n -> TypedNames] : n \in 1..2} :
        \A i, j \in 1..Len(names) : names[i] = names[j] => i = j}
SavedList(names) ==
    [i \in 1..Len(names) |->
        [id |-> generateId(0, i), name |-> names[i], text |-> DefaultPrompt, createdAt |-> 0]]
SavedRows(names) ==
    [i \in 1..Len(names) |->
        [id |-> generateId(0, i), name |-> names[i], text |-> DefaultPrompt, created_at |-> 0]]

\* the session has a complete case, one scored run and some saved prompts
InitSession(key, nameLists) ==
    /\ \E names \in nameLists :
          /\ savedPrompts = SavedList(names)
          /\ dbPrompts = SavedRows(names)
          /\ nextId = Len(names) + 2
          /\ LET gold == GroundTruthOf(EntryA)
                 run == NewResult(ScoredRun("1", "gemini-3-pro-preview", names[1], DefaultPrompt,
                                            gold, WellFormed, calculateScore(gold, WellFormed)),
                                  0, Len(names) + 1)
             IN /\ testResults = <<run>>
                /\ dbResults = InsertRow(<<>>, run)
    /\ LET truthOnly == ingestAuditEntries(<<>>, <<>>, <<EntryA>>, "audit.pdf", "Urology").cases
       IN cases = ingestRawNote(truthOnly, truthOnly, <<TokMrn, "1", TokWord>>, "note.pdf").cases
    /\ closures = {}
    /\ last = [op |-> "none"]
    /\ nops = 0
    /\ posts = {}
    /\ clock = 0
    /\ promptPosts = {}
    /\ apiKey = key
    /\ tester = [mounted |-> FALSE, mount |-> 0]
    /\ calls = {}
    /\ ncalls = 0
    /\ dbCases = <<>>
    /\ outbox = <<>>
    /\ improves = {}
    /\ ingestion = IngestionState
    /\ uploads = {}
    /\ flaggedMrns = <<>>
    /\ load = LoadDone

InitImprove == InitSession("key", SavedNameLists)

\* the rejected requests of savePrompt and deletePrompt are followed in SpecOffline
NextImprove ==
    \/ MountTester \/ UnmountTester \/ SetApiKey
    \/ ImprovePrompt \/ ImproveResolves \/ ApplyImprovedPrompt \/ DismissImproved
    \/ DeletePrompt
SpecImprove == InitImprove /\ [][NextImprove]_vars

(***************************************************************************)
(* server.cjs, /api/cases: the persisted Case store.  A row holds the      *)
(* columns of the cases table; NULL is Null in the specialty column and the *)
(* absent object or text in the ground_truth, raw_text and metadata columns.*)
(* Rows are kept in the order of their first insert.                       *)
(***************************************************************************)
\* JSON.stringify leaves out the keys whose value is undefined (an absent
\* ground_truth or metadata is the empty object of the model and sent as such)
JsonOf(o) ==
    [k \in {j \in DOMAIN o : j \in {"ground_truth", "metadata"} \/ o[j] /= Undef} |-> o[k]]

\* the body of the request addCase sends: JSON.stringify(caseData)
CaseRequest(caseData) == [method |-> "POST", path |-> "cases", body |-> JsonOf(caseData)]

\* the values bound to the INSERT: specialty || null, ground_truth ? JSON.stringify(..) : null, ..
CaseValues(body) ==
    [mrn |-> Get(body, "mrn"),
     status |-> Get(body, "status"),
     specialty |-> OrNull(Get(body, "specialty")),
     ground_truth |-> JsonOf(GetObj(body, "ground_truth")),
     raw_text |-> GetText(body, "raw_text"),
     metadata |-> JsonOf(GetObj(body, "metadata"))]

\* ON CONFLICT(mrn) DO UPDATE SET status = excluded.status,
\*   specialty = COALESCE(excluded.specialty, cases.specialty), ..., metadata = excluded.metadata
ConflictRow(old, new) ==
    [mrn |-> old.mrn,
     status |-> new.status,
     specialty |-> IF new.specialty /= Null THEN new.specialty ELSE old.specialty,
     ground_truth |-> IF TruthyObj(new.ground_truth) THEN new.ground_truth ELSE old.ground_truth,
     raw_text |-> IF TruthyText(new.raw_text) THEN new.raw_text ELSE old.raw_text,
     metadata |-> new.metadata]

UpsertCase(rows, body) ==
    LET new == CaseValues(body)
        existing == FindIndex(rows, new.mrn)
    IN IF existing >= 1
       THEN [rows EXCEPT ![existing] = ConflictRow(@, new)]
       ELSE Append(rows, new)

\* GET /api/cases: one formatted case per row (JSON.parse of the stored texts;
\* a NULL ground_truth or metadata is undefined and left out of the response)
FormatCaseRow(c) ==
    LET base == [mrn |-> c.mrn, status |-> c.status, specialty |-> c.specialty,
                 raw_text |-> c.raw_text]
        truth == IF TruthyObj(c.ground_truth) THEN [ground_truth |-> c.ground_truth] ELSE <<>>
        meta == IF TruthyObj(c.metadata) THEN [metadata |-> c.metadata] ELSE <<>>
    IN Spread(Spread(base, truth), meta)

\* the requests of one ingestAuditEntries call, in the order addCase is called
RECURSIVE AuditRequests(_, _, _, _, _)
AuditRequests(closure, entries, i, sourceFile, specialty) ==
    IF i > Len(entries) THEN <<>>
    ELSE IF EntrySkipped(entries[i])
         THEN AuditRequests(closure, entries, i + 1, sourceFile, specialty)
         ELSE <<CaseRequest(AuditCase(FindCase(closure, Get(entries[i], "mrn")), entries[i],
                                      sourceFile, specialty))>>
              \o AuditRequests(closure, entries, i + 1, sourceFile, specialty)

\* the request of one ingestRawNote call
NoteRequests(closure, text, fileName) ==
    LET mrn == extractMRN(text)
    IN IF ~Truthy(mrn) THEN <<>>
       ELSE <<CaseRequest(NoteCase(FindCase(closure, mrn), mrn, text, fileName))>>

MirrorBatches == {<<EntryA>>, <<EntryB>>, <<EntryC>>, <<EntryNoMrn, EntryB>>, <<EntryB, EntryA>>}
MirrorTexts == {<<TokMrn, "1", TokWord>>, <<TokMedRec, "2">>, <<TokMrn, TokWord, "1">>}

\* ingestAuditEntries with the requests of its addCase calls
PersistGoldOf(batches) ==
    \E entries \in batches, f \in AuditFiles, s \in Specialties :
        /\ GoldCall(cases, entries, f, s)
        /\ outbox' = outbox \o AuditRequests(cases, entries, 1, f, s)

\* ingestRawNote with the request of its addCase call
PersistNoteOf(texts) ==
    \E text \in texts, f \in NoteFiles :
        /\ NoteCall(cases, text, f)
        /\ outbox' = outbox \o NoteRequests(cases, text, f)

PersistGold == PersistGoldOf(MirrorBatches) /\ UNCHANGED dbCases
PersistNote == PersistNoteOf(MirrorTexts) /\ UNCHANGED dbCases

PersistStaleGold ==
    \E c \in closures, entries \in MirrorBatches, f \in AuditFiles, s \in Specialties :
        /\ c /= cases
        /\ GoldCall(c, entries, f, s)
        /\ outbox' = outbox \o AuditRequests(c, entries, 1, f, s)
        /\ UNCHANGED dbCases

PersistStaleNote ==
    \E c \in closures, text \in MirrorTexts, f \in NoteFiles :
        /\ c /= cases
        /\ NoteCall(c, text, f)
        /\ outbox' = outbox \o NoteRequests(c, text, f)
        /\ UNCHANGED dbCases

\* the server handles the oldest pending POST /api/cases
PostCase ==
    /\ outbox /= <<>>
    /\ Head(outbox).path = "cases"
    /\ dbCases' = UpsertCase(dbCases, Head(outbox).body)
    /\ outbox' = Tail(outbox)
    /\ UNCHANGED <<caseVars, last, nops, ledgerVars, testerVars, pageVars, sessionVars>>

NextMirror ==
    PersistGold \/ PersistNote \/ HoldClosure \/ DropClosure \/ PersistStaleGold
    \/ PersistStaleNote \/ PostCase
SpecMirror == Init /\ [][NextMirror]_vars

(***************************************************************************)
(* DataContext.tsx with the API out of reach: every fetch of a mutation is *)
(* rejected and ends in the catch clause of the callback that issued it.   *)
(***************************************************************************)
OfflineBatches == {<<EntryA>>, <<EntryNoMrn, EntryC>>}
OfflineTexts == {<<TokMrn, "1", TokWord>>, <<TokMrn, TokWord, "1">>}
OfflineNames == {DefaultPromptName, <<"Improved">>}

OfflineGold == PersistGoldOf(OfflineBatches) /\ UNCHANGED dbCases
OfflineNote == PersistNoteOf(OfflineTexts) /\ UNCHANGED dbCases

\* savePrompt(name, text), called by a consumer of the context
SavePrompt ==
    /\ nops < MaxOps /\ nextId <= MaxRuns
    /\ \E name \in OfflineNames, text \in PromptTexts :
          LET saved == savePrompt(savedPrompts, savedPrompts, name, text, clock, nextId)
          IN /\ savedPrompts' = saved.list
             /\ promptPosts' = promptPosts \cup {saved.post}
             /\ nextId' = nextId + saved.ids
    /\ nops' = nops + 1
    /\ UNCHANGED <<caseVars, last, testResults, dbResults, posts, clock, dbPrompts, apiKey,
                   tester, calls, ncalls, storeVars, pageVars, sessionVars>>

\* a plausible slip: the catch clause takes the case back out of the list
CaseRejectedRollsBack(prev, body) == SelectSeq(prev, LAMBDA c : Get(c, "mrn") /= Get(body, "mrn"))

\* catch (error) { console.error('Failed to save case:', error) }
CaseRejected(prev, body) == prev

\* the fetch of addCase is rejected
PostCaseFails ==
    /\ \E i \in 1..Len(outbox) :
          /\ outbox[i].path = "cases"
          /\ cases' = CaseRejected(cases, outbox[i].body)
          /\ outbox' = SubSeq(outbox, 1, i - 1) \o SubSeq(outbox, i + 1, Len(outbox))
    /\ UNCHANGED <<closures, last, nops, ledgerVars, testerVars, dbCases, pageVars, sessionVars>>

NextOffline ==
    \/ OfflineGold \/ OfflineNote \/ PostCaseFails
    \/ AddTestResult \/ PostFails
    \/ SavePrompt \/ PostPromptFails
    \/ DeletePrompt \/ DeletePromptFails
SpecOffline == Init /\ [][NextOffline]_vars

(***************************************************************************)
(* The Ingestion page (handleAuditUpload, handleNoteUpload) and the        *)
(* service functions it calls.  A file is its name and what the service    *)
(* reads in it; `uploads` holds the handlers that are past their first     *)
(* await.                                                                  *)
(***************************************************************************)
MaxFiles == 2      \* files per note upload

MissingKeyMessage == <<"Please set your Gemini API key in settings first.">>

AuditUploadFiles == {[name |-> "audit.pdf", data |-> <<EntryA, EntryNoMrn>>]}
NoteUploadFiles ==
    {[name |-> "a.pdf", data |-> <<TokMrn, "1", TokWord>>],
     [name |-> "b.pdf", data |-> <<TokWord>>]}
NoteBatches == UNION {[1..n -> NoteUploadFiles] : n \in 1..MaxFiles}

\* getGenAI(apiKey) is the first statement of every service function
getGenAI(key) ==
    IF ~Truthy(key) THEN [kind |-> "thrown", message |-> KeyError] ELSE [kind |-> "client"]

\* extractAuditFromPDF(fileData, _fileName, model, apiKey)
extractAuditFromPDF(fileData, fileName, key) ==
    IF getGenAI(key).kind = "thrown" THEN getGenAI(key)
    ELSE [kind |-> "entries", entries |-> fileData]

\* extractTextFromPDF(fileData, model, apiKey)
extractTextFromPDF(fileData, key) ==
    IF getGenAI(key).kind = "thrown" THEN getGenAI(key)
    ELSE [kind |-> "text", text |-> fileData]

\* the handlers call extractAuditFromPDF(buffer, file.name) and
\* extractTextFromPDF(buffer): the apiKey parameter is left undefined
PassedKey == Undef

\* a plausible slip: the handlers go on without a credential
UploadRefusedNever(key) == FALSE

\* if (!apiKey) { set...Status('error'); set...Message(...); return; }
UploadRefused(key) == ~Truthy(key)

\* a file is chosen in the audit input, which is enabled: handleAuditUpload up
\* to await file.arrayBuffer()
AuditUpload ==
    /\ nops < MaxOps
    /\ ingestion.auditStatus /= "loading"
    /\ \E file \in AuditUploadFiles :
          IF UploadRefused(apiKey)
          THEN /\ ingestion' = [ingestion EXCEPT !.auditStatus = "error",
                                                  !.auditMessage = MissingKeyMessage]
               /\ UNCHANGED uploads
          ELSE /\ ingestion' = [ingestion EXCEPT !.auditStatus = "loading",
                                                  !.auditMessage = <<"Extracting audit entries...">>]
               /\ uploads' = uploads \cup {[kind |-> "audit", file |-> file, closure |-> cases,
                                            specialty |-> ingestion.specialty]}
    /\ last' = [op |-> "audit_upload"]
    /\ nops' = nops + 1
    /\ UNCHANGED <<caseVars, ledgerVars, testerVars, storeVars, improves, sessionVars>>

\* handleAuditUpload after the buffer is read: the try block to its end or its catch
AuditUploadSettles ==
    /\ \E u \in uploads :
          /\ u.kind = "audit"
          /\ uploads' = uploads \ {u}
          /\ LET r == extractAuditFromPDF(u.file.data, u.file.name, PassedKey)
             IN IF r.kind = "thrown"
                THEN /\ ingestion' = [ingestion EXCEPT !.auditStatus = "error",
                                                        !.auditMessage = <<"Error: ", r.message>>]
                     /\ UNCHANGED <<cases, outbox>>
                ELSE LET done == ingestAuditEntries(u.closure, cases, r.entries, u.file.name,
                                                    u.specialty)
                     IN /\ cases' = done.cases
                        /\ outbox' = outbox \o AuditRequests(u.closure, r.entries, 1,
                                                             u.file.name, u.specialty)
                        /\ ingestion' =
                              [ingestion EXCEPT
                                  !.auditStatus = "success",
                                  !.auditMessage = <<"Successfully extracted ", done.count,
                                                     " audit cases from ", u.file.name>>]
    /\ UNCHANGED <<closures, last, nops, ledgerVars, testerVars, dbCases, improves, sessionVars>>

\* one turn of the loop of handleNoteUpload: what the file yields
NoteFileResult(closure, prev, file) ==
    LET r == extractTextFromPDF(file.data, PassedKey)
    IN IF r.kind = "thrown"
       THEN [cases |-> prev, requests |-> <<>>,
             entry |-> [file |-> file.name, success |-> FALSE, mrn |-> Null]]
       ELSE IF ~Truthy(extractMRN(r.text))
       THEN [cases |-> prev, requests |-> <<>>,
             entry |-> [file |-> file.name, success |-> FALSE, mrn |-> Null]]
       ELSE LET done == ingestRawNote(closure, prev, r.text, file.name)
            IN [cases |-> done.cases, requests |-> NoteRequests(closure, r.text, file.name),
                entry |-> [file |-> file.name, success |-> done.success,
                           mrn |-> extractMRN(r.text)]]

\* a plausible slip: the loop is left at the first file that fails
NextFileUnlessFailed(i, n, entry) == IF entry.success THEN i + 1 ELSE n + 1

\* for (let i = 0; i < files.length; i++): the catch clause is inside the loop
NextFile(i, n, entry) == i + 1

\* `Processing ${i + 1}/${files.length}: ${file.name}`
ProcessingMessage(i, files) == <<"Processing ", i, "/", Len(files), ": ", files[i].name>>

\* files are chosen in the note input, which is enabled: handleNoteUpload up to the
\* first await file.arrayBuffer()
NoteUpload ==
    /\ nops < MaxOps
    /\ ingestion.noteStatus /= "loading"
    /\ \E files \in NoteBatches :
          IF UploadRefused(apiKey)
          THEN /\ ingestion' = [ingestion EXCEPT !.noteStatus = "error",
                                                  !.noteMessage = MissingKeyMessage]
               /\ UNCHANGED uploads
          ELSE /\ ingestion' = [ingestion EXCEPT !.noteStatus = "loading",
                                                  !.noteMessage = ProcessingMessage(1, files),
                                                  !.noteResults = <<>>]
               /\ uploads' = uploads \cup {[kind |-> "notes", files |-> files, i |-> 1,
                                            closure |-> cases, results |-> <<>>]}
    /\ last' = [op |-> "note_upload"]
    /\ nops' = nops + 1
    /\ UNCHANGED <<caseVars, ledgerVars, testerVars, storeVars, improves, sessionVars>>

\* handleNoteUpload after a buffer is read: the rest of the turn, then the next turn
\* up to its await, or the statements after the loop
NoteFileStep ==
    /\ \E u \in uploads :
          /\ u.kind = "notes"
          /\ LET n == Len(u.files)
                 turn == NoteFileResult(u.closure, cases, u.files[u.i])
                 results == Append(u.results, turn.entry)
                 next == NextFile(u.i, n, turn.entry)
                 successCount == Len(SelectSeq(results, LAMBDA r : r.success))
             IN /\ cases' = turn.cases
                /\ outbox' = outbox \o turn.requests
                /\ IF next <= n
                   THEN /\ uploads' = (uploads \ {u}) \cup
                                         {[u EXCEPT !.i = next, !.results = results]}
                        /\ ingestion' = [ingestion EXCEPT
                                            !.noteMessage = ProcessingMessage(next, u.files)]
                   ELSE /\ uploads' = uploads \ {u}
                        /\ ingestion' =
                              [ingestion EXCEPT
                                  !.noteStatus = "success",
                                  !.noteMessage = <<"Processed ", n, " files. ", successCount,
                                                    " successfully linked.">>,
                                  !.noteResults = results]
    /\ UNCHANGED <<closures, last, nops, ledgerVars, testerVars, dbCases, improves, sessionVars>>

\* the session of the pages that call the model service, without a credential at first
InitPages == InitSession("", {<<DefaultPromptName>>})

NextPages ==
    \/ SetApiKey \/ AuditUpload \/ AuditUploadSettles \/ NoteUpload \/ NoteFileStep
    \/ MountTester \/ RunTest \/ RunTestResolves \/ ImprovePrompt \/ ImproveResolves
SpecPages == InitPages /\ [][NextPages]_vars

(***************************************************************************)
(* DataContext.tsx, loadData: the effect that runs once when the provider  *)
(* mounts.  The four GET requests are awaited together; when all have been *)
(* answered the lists in memory are replaced by the answers.  Nothing in   *)
(* the provider or its consumers waits for isLoading, so every operation   *)
(* of the context can run while the load is in flight.                     *)
(***************************************************************************)
\* the orders in which n rows can be listed
Orders(n) == {f \in [1..n -> 1..n] : \A i, j \in 1..n : f[i] = f[j] => i = j}

\* SELECT * FROM cases ORDER BY updated_at DESC, formatted: updated_at is not
\* followed, so every order of the rows is a possible answer
CaseListings(rows) ==
    {[i \in 1..Len(rows) |-> FormatCaseRow(rows[f[i]])] : f \in Orders(Len(rows))}

\* the object GET /api/prompts formats from a row
FormatPromptRow(p) == [id |-> p.id, name |-> p.name, text |-> p.text, createdAt |-> p.created_at]

\* SELECT * FROM saved_prompts ORDER BY created_at DESC, formatted
PromptListings(rows) ==
    {[i \in 1..Len(rows) |-> FormatPromptRow(rows[f[i]])] :
        f \in {g \in Orders(Len(rows)) :
                  \A i, j \in 1..Len(rows) :
                      i < j => rows[g[i]].created_at >= rows[g[j]].created_at}}

\* the provider has just mounted: nothing in memory, the GET requests in flight
Loading == [stage |-> "fetching"]

\* the server answers the four GET requests; the settings table is not followed,
\* so the stored credential is any key or none
LoadResponds ==
    /\ load.stage = "fetching"
    /\ \E casesData \in CaseListings(dbCases), resultsData \in Listings(dbResults),
          promptsData \in PromptListings(dbPrompts), value \in ApiKeys :
          load' = [stage |-> "fetched", casesData |-> casesData, resultsData |-> resultsData,
                   promptsData |-> promptsData, value |-> value]
    /\ UNCHANGED <<caseVars, last, nops, ledgerVars, testerVars, storeVars, pageVars,
                   flaggedMrns>>

\* Promise.all resolves and loadData runs to its end: setCases(casesData),
\* setTestResults(resultsData), setSavedPrompts(promptsData) replace the lists
LoadCompletes ==
    /\ load.stage = "fetched"
    /\ cases' = load.casesData
    /\ testResults' = load.resultsData
    /\ savedPrompts' = load.promptsData
    /\ apiKey' = IF Truthy(load.value) THEN load.value ELSE apiKey
    /\ load' = LoadDone
    /\ UNCHANGED <<closures, last, nops, dbResults, posts, clock, nextId, dbPrompts,
                   promptPosts, tester, calls, ncalls, storeVars, pageVars, flaggedMrns>>

\* a GET is rejected: the catch clause reads localStorage, where this provider
\* only ever writes the credential (when its PUT was rejected)
LoadFails ==
    /\ load.stage = "fetching"
    /\ \E savedApiKey \in ApiKeys :
          apiKey' = IF Truthy(savedApiKey) THEN savedApiKey ELSE apiKey
    /\ load' = LoadDone
    /\ UNCHANGED <<caseVars, last, nops, ledgerVars, savedPrompts, dbPrompts, promptPosts,
                   tester, calls, ncalls, storeVars, pageVars, flaggedMrns>>

(***************************************************************************)
(* A session that starts on a store left by an earlier one: the ground     *)
(* truth of the cases "1" and "2" and the note of "1" were persisted, the  *)
(* note of "2" was persisted or its request was rejected, and both cases   *)
(* were run while they were complete in memory.                            *)
(***************************************************************************)
RECURSIVE UpsertAll(_, _)
UpsertAll(rows, requests) ==
    IF requests = <<>> THEN rows
    ELSE UpsertAll(UpsertCase(rows, Head(requests).body), Tail(requests))

StoredGold == AuditRequests(<<>>, <<EntryA, EntryC>>, 1, "audit.pdf", "Urology")
GoldOnly == ingestAuditEntries(<<>>, <<>>, <<EntryA, EntryC>>, "audit.pdf", "Urology").cases
StoredNote1 == NoteRequests(GoldOnly, <<TokMrn, "1", TokWord>>, "note.pdf")
StoredNote2 == NoteRequests(GoldOnly, <<TokMedRec, "2">>, "note.pdf")
StoredCases == {UpsertAll(<<>>, StoredGold \o StoredNote1),
                UpsertAll(<<>>, StoredGold \o StoredNote1 \o StoredNote2)}

StoredRun(entry, prediction, now, fresh) ==
    NewResult(ScoredRun(entry.mrn, "gemini-3-pro-preview", DefaultPromptName, DefaultPrompt,
                        GroundTruthOf(entry), prediction,
                        calculateScore(GroundTruthOf(entry), prediction)), now, fresh)
Missed == [primary_icd |-> <<"N", "20.1">>, secondary_icds |-> <<>>,
           cpt_codes |-> <<<<"99214">>>>, reasoning |-> "because"]
StoredResults ==
    {InsertRow(InsertRow(InsertRow(<<>>, StoredRun(EntryA, WellFormed, 0, 2)),
                         StoredRun(EntryC, Missed, 0, 3)),
               StoredRun(EntryA, Missed, t, 4)) : t \in 0..1}

InitFocus ==
    /\ cases = <<>>
    /\ closures = {}
    /\ last = [op |-> "none"]
    /\ nops = 0
    /\ testResults = <<>>
    /\ dbResults \in StoredResults
    /\ posts = {}
    /\ clock = 1
    /\ nextId = 5
    /\ savedPrompts = <<>>
    /\ dbPrompts = SavedRows(<<DefaultPromptName>>)
    /\ promptPosts = {}
    /\ apiKey = ""
    /\ tester = [mounted |-> FALSE, mount |-> 0]
    /\ calls = {}
    /\ ncalls = 0
    /\ dbCases \in StoredCases
    /\ outbox = <<>>
    /\ improves = {}
    /\ ingestion = IngestionState
    /\ uploads = {}
    /\ flaggedMrns = <<>>
    /\ load = Loading

NextFocus ==
    \/ LoadResponds \/ LoadCompletes \/ ToggleFlag \/ ClearFlags
    \/ MountTester \/ RunTest \/ RunTestResolves
    \/ ImprovePrompt \/ ImproveResolves
SpecFocus == InitFocus /\ [][NextFocus]_vars

(***************************************************************************)
(* A session whose ledger holds up to MaxHistory runs, as addTestResult    *)
(* leaves them: newest first, the older ones stamped 0 and the newer ones  *)
(* 1.  The run at one place missed the code of case "1", the oldest run    *)
(* too, the run at another place missed the code of case "2", and the      *)
(* other runs matched.                                                     *)
(***************************************************************************)
HistoryRun(i, a, b, cut) ==
    LET now == IF i <= cut THEN 0 ELSE 1
    IN IF i = b THEN StoredRun(EntryC, Missed, now, i)
       ELSE IF i = a \/ i = 1 THEN StoredRun(EntryA, Missed, now, i)
       ELSE StoredRun(EntryA, WellFormed, now, i)

\* the run added i-th is at place n + 1 - i of the list
History(n, a, b, cut) == [i \in 1..n |-> HistoryRun(n + 1 - i, a, b, cut)]

Histories ==
    {History(n, a, b, cut) : n \in (MaxHistory - 2)..MaxHistory, a \in 2..4, b \in {0, 5, MaxHistory},
                             cut \in {0, 1, MaxHistory - 1}}

InitRequest ==
    /\ testResults \in Histories
    /\ LET truthOnly == ingestAuditEntries(<<>>, <<>>, <<EntryA>>, "audit.pdf", "Urology").cases
       IN cases = ingestRawNote(truthOnly, truthOnly, <<TokMrn, "1", TokWord>>, "note.pdf").cases
    /\ closures = {}
    /\ last = [op |-> "none"]
    /\ nops = 0
    /\ dbResults = <<>>
    /\ posts = {}
    /\ clock = 1
    /\ nextId = MaxHistory + 1
    /\ savedPrompts = SavedList(<<DefaultPromptName>>)
    /\ dbPrompts = SavedRows(<<DefaultPromptName>>)
    /\ promptPosts = {}
    /\ apiKey = "key"
    /\ tester = [mounted |-> FALSE, mount |-> 0]
    /\ calls = {}
    /\ ncalls = 0
    /\ dbCases = <<>>
    /\ outbox = <<>>
    /\ improves = {}
    /\ ingestion = IngestionState
    /\ uploads = {}
    /\ flaggedMrns = <<>>
    /\ load = LoadDone

NextRequest ==
    MountTester \/ EditPrompt \/ ToggleFlag \/ ImprovePrompt \/ ImproveResolves
SpecRequest == InitRequest /\ [][NextRequest]_vars

(***************************************************************************)
(* The first moments of a session: the provider has mounted on a store     *)
(* that is empty or holds case "2", a run of it and a saved prompt (the    *)
(* ids 1 and 2 are theirs), and consumers of the context ingest, append    *)
(* runs and save prompts while the load is in flight and after it.         *)
(***************************************************************************)
\* what an earlier session left in the store
LoadStores ==
    {[cases |-> <<>>, results |-> <<>>, prompts |-> <<>>],
     [cases |-> UpsertAll(<<>>, AuditRequests(<<>>, <<EntryC>>, 1, "audit.pdf", "Urology")),
      results |-> InsertRow(<<>>, StoredRun(EntryC, Missed, 0, 2)),
      prompts |-> SavedRows(<<DefaultPromptName>>)]}

LoadBatches == {<<EntryA>>}
LoadGold == PersistGoldOf(LoadBatches) /\ UNCHANGED <<dbCases, load>>

InitLoad ==
    /\ cases = <<>>
    /\ closures = {}
    /\ last = [op |-> "none"]
    /\ nops = 0
    /\ testResults = <<>>
    /\ \E store \in LoadStores :
          dbCases = store.cases /\ dbResults = store.results /\ dbPrompts = store.prompts
    /\ posts = {}
    /\ clock = 1
    /\ nextId = 3
    /\ savedPrompts = <<>>
    /\ promptPosts = {}
    /\ apiKey = ""
    /\ tester = [mounted |-> FALSE, mount |-> 0]
    /\ calls = {}
    /\ ncalls = 0
    /\ outbox = <<>>
    /\ improves = {}
    /\ ingestion = IngestionState
    /\ uploads = {}
    /\ flaggedMrns = <<>>
    /\ load = Loading

NextLoad ==
    \/ LoadResponds \/ LoadCompletes \/ LoadFails
    \/ LoadGold \/ AddTestResult \/ SavePrompt
    \/ PostCase \/ PostResult \/ PostPrompt
SpecLoad == InitLoad /\ [][NextLoad]_vars

(***************************************************************************)
(* Vocabulary of the properties.                                           *)
(***************************************************************************)
HasTruth(c) == TruthyObj(GetObj(c, "ground_truth"))
HasText(c) == TruthyText(GetText(c, "raw_text"))
KeysOf(list) == {Get(list[i], "mrn") : i \in 1..Len(list)}
ValidIndices(entries) == {i \in 1..Len(entries) : Truthy(Get(entries[i], "mrn"))}
LastIndexOf(entries, mrn) ==
    CHOOSE i \in ValidIndices(entries) :
        /\ entries[i].mrn = mrn
        /\ \A j \in ValidIndices(entries) : entries[j].mrn = mrn => j <= i
GoldStep == last'.op = "ingest_gold" /\ nops' = nops + 1
NoteStep == last'.op = "ingest_note" /\ nops' = nops + 1

\* C1: when every ingest call reads the state the previous call left, the status
\* of every Case is derived from its contents: complete iff ground truth and raw
\* text are both present, truth-only iff only the ground truth is, note-only iff
\* only the raw text is.
C1_StatusDerived ==
    \A i \in 1..Len(cases) :
        LET c == cases[i]
        IN /\ (c.status = "complete") <=> (HasTruth(c) /\ HasText(c))
           /\ (c.status = "incomplete_truth_only") <=> (HasTruth(c) /\ ~HasText(c))
           /\ (c.status = "incomplete_note_only") <=> (~HasTruth(c) /\ HasText(c))

C1_Witness ==
    /\ \E i \in 1..Len(cases) : cases[i].status = "complete"
    /\ \E i \in 1..Len(cases) : cases[i].status = "incomplete_truth_only"
    /\ last.op = "ingest_note"

\* C2: from a repository without key k, ingesting a gold entry for k and then a
\* note whose extracted identifier is k, or the note and then the entry, ends in
\* the same repository, which holds exactly one Case for k: complete, with the
\* entry's ground truth and the note's text.
C2_OrderIndependent ==
    \A e \in Entries, text \in NoteTexts, s \in Specialties, af \in AuditFiles, nf \in NoteFiles :
        LET k == Get(e, "mrn")
            g == ingestAuditEntries(cases, cases, <<e>>, af, s).cases
            gn == ingestRawNote(g, g, text, nf).cases
            n == ingestRawNote(cases, cases, text, nf).cases
            ng == ingestAuditEntries(n, n, <<e>>, af, s).cases
        IN (Truthy(k) /\ extractMRN(text) = k /\ k \notin KeysOf(cases)) =>
              /\ gn = ng
              /\ Cardinality({i \in 1..Len(gn) : gn[i].mrn = k}) = 1
              /\ FindCase(gn, k).status = "complete"
              /\ FindCase(gn, k).ground_truth = GroundTruthOf(e)
              /\ FindCase(gn, k).raw_text = text
              /\ FindCase(gn, k).specialty = s

\* a key is still absent while another Case has been completed by gold-then-note
C2_Witness ==
    /\ last.op = "ingest_note"
    /\ \E i \in 1..Len(cases) : cases[i].status = "complete"
    /\ \E e \in Entries, text \in NoteTexts :
          Truthy(Get(e, "mrn")) /\ extractMRN(text) = e.mrn /\ e.mrn \notin KeysOf(cases)

\* C3 (as claimed): across ingest calls a complete Case never becomes incomplete
\* again, and a ground truth or raw text that is present is never absent later.
C3_NeverDemoted ==
    [][\A i \in 1..Len(cases) :
          LET c == cases[i]
              d == FindCase(cases', c.mrn)
          IN /\ c.status = "complete" => Get(d, "status") = "complete"
             /\ HasTruth(c) => HasTruth(d)
             /\ HasText(c) => HasText(d)]_vars

\* C4: no two Cases of the in-memory list share a key.
C4_UniqueKeys ==
    \A i, j \in 1..Len(cases) : cases[i].mrn = cases[j].mrn => i = j

\* a call met a Case of its key and the list did not grow
C4_Witness ==
    /\ Len(cases) = 2
    /\ nops = MaxOps
    /\ last.op = "addCase"

\* C5: a gold entry without identifier is skipped: it is not counted, it creates
\* and changes no Case, and the other entries of the batch are still ingested.
C5_NoIdentifierSkipped ==
    [][GoldStep =>
          LET es == last'.entries
              valid == ValidIndices(es)
          IN /\ last'.count = Cardinality(valid)
             /\ KeysOf(cases') = KeysOf(cases) \cup {es[i].mrn : i \in valid}
             /\ valid = {} => cases' = cases
             /\ \A i \in 1..Len(cases) :
                   cases[i].mrn \notin {es[j].mrn : j \in valid} => cases'[i] = cases[i]
             /\ \A i \in valid :
                   FindCase(cases', es[i].mrn).ground_truth
                       = GroundTruthOf(es[LastIndexOf(es, es[i].mrn)])]_vars

\* a batch of one entry without identifier and one with: one Case, count 1
C5_Witness ==
    /\ last.op = "ingest_gold"
    /\ Len(last.entries) = 2
    /\ ValidIndices(last.entries) = {2}
    /\ last.count = 1
    /\ Len(cases) = 1

C7_SpecialtyFirstWriteWins ==
    [][\A i \in 1..Len(cases) :
          Truthy(Get(cases[i], "specialty")) =>
              Get(FindCase(cases', cases[i].mrn), "specialty") = cases[i].specialty]_vars

\* C8: a note in which no identifier is found returns (false, none) and leaves
\* the Cases as they were.
C8_NoIdentifierNote ==
    [][(NoteStep /\ ~Truthy(extractMRN(last'.text))) =>
          /\ last'.success = FALSE
          /\ last'.mrn = Null
          /\ cases' = cases]_vars

C8_Witness ==
    /\ last.op = "ingest_note"
    /\ ~Truthy(extractMRN(last.text))
    /\ last.success = FALSE
    /\ Len(cases) > 0

ListedStep == last'.op = "list" /\ nops' = nops + 1
DeleteStep == last'.op = "delete" /\ nops' = nops + 1
NewestFirst(list) ==
    \A i, j \in 1..Len(list) : i < j => list[i].timestamp >= list[j].timestamp
StrictlyNewestFirst(list) ==
    \A i, j \in 1..Len(list) : i < j => list[i].timestamp > list[j].timestamp

C10_DeleteById ==
    [][DeleteStep =>
          LET id == last'.id
              at == {i \in 1..Len(dbResults) : dbResults[i].id = id}
          IN /\ last'.success = TRUE
             /\ at = {} => dbResults' = dbResults
             /\ \A i \in at :
                   dbResults' = SubSeq(dbResults, 1, i - 1)
                                    \o SubSeq(dbResults, i + 1, Len(dbResults))
             /\ Len(dbResults') = Len(dbResults) - Cardinality(at)
             /\ Cardinality(at) <= 1
             /\ Listings(dbResults') =
                   {SelectSeq(l, LAMBDA r : r.id /= id) : l \in Listings(dbResults)}]_vars

\* a stored run was deleted and two others remain
C10_Witness ==
    /\ last.op = "delete"
    /\ last.id \in RowIds(testResults)
    /\ last.changes = 1
    /\ last.id \notin RowIds(dbResults)
    /\ Len(dbResults) = 2
    /\ posts = {}

(***************************************************************************)
(* The Scoring Engine.                                                     *)
(***************************************************************************)
Elems(list) == {list[i] : i \in 1..Len(list)}
NoDuplicates(list) == \A i, j \in 1..Len(list) : list[i] = list[j] => i = j
Blanks(n) == [i \in 1..n |-> Blank]
\* b is a with blanks put around it
PaddingOf(a, b) ==
    \E l, r \in 0..Len(b) : b = Blanks(l) \o a \o Blanks(r)
\* a and b differ only in letter case and surrounding blanks
SameCode(a, b) ==
    \E l \in 0..Len(a), r \in 0..Len(a) :
        /\ l + r <= Len(a)
        /\ LET core == SubSeq(toLowerCase(a), l + 1, Len(a) - r)
           IN /\ PaddingOf(core, toLowerCase(a))
              /\ PaddingOf(core, toLowerCase(b))
              /\ (core /= <<>> => core[1] /= Blank /\ core[Len(core)] /= Blank)

\* C14: the matched, missed and hallucinated lists of a Score are the
\* intersection and the two differences of the normalized gold and predicted
\* code sets; matched and missed make up the gold set, matched and hallucinated
\* the predicted set; the three are pairwise disjoint and free of duplicates.
C14_SetAlgebra ==
    last.op = "score" =>
        LET goldSet == {Normalize(c) : c \in Elems(last.gold.cpt_codes)}
            predSet == {Normalize(c) : c \in Elems(last.pred.cpt_codes)}
            matched == Elems(last.score.matched_cpts)
            missed == Elems(last.score.missed_cpts)
            hallucinated == Elems(last.score.hallucinated_cpts)
        IN /\ matched = goldSet \cap predSet
           /\ missed = goldSet \ predSet
           /\ hallucinated = predSet \ goldSet
           /\ matched \cup missed = goldSet
           /\ matched \cup hallucinated = predSet
           /\ matched \cap missed = {}
           /\ matched \cap hallucinated = {}
           /\ missed \cap hallucinated = {}
           /\ NoDuplicates(last.score.matched_cpts)
           /\ NoDuplicates(last.score.missed_cpts)
           /\ NoDuplicates(last.score.hallucinated_cpts)

\* one code matched, one missed, one hallucinated
C14_Witness ==
    /\ last.op = "score"
    /\ Len(last.score.matched_cpts) = 1
    /\ Len(last.score.missed_cpts) = 1
    /\ Len(last.score.hallucinated_cpts) = 1

\* C15: recall is |matched| / |gold set| and precision |matched| / |pred set|,
\* both between 0 and 1; recall is 0 when the gold set is empty and precision is
\* 0 when the predicted set is empty, and neither is the result of a division
\* by zero.
C15_RatiosBounded ==
    last.op = "score" =>
        LET goldSet == {Normalize(c) : c \in Elems(last.gold.cpt_codes)}
            predSet == {Normalize(c) : c \in Elems(last.pred.cpt_codes)}
            matched == goldSet \cap predSet
            recall == last.score.cpt_recall
            precision == last.score.cpt_precision
        IN /\ recall.den > 0 /\ precision.den > 0
           /\ 0 <= recall.num /\ recall.num <= recall.den
           /\ 0 <= precision.num /\ precision.num <= precision.den
           /\ goldSet /= {} => RatEq(recall, Rat(Cardinality(matched), Cardinality(goldSet)))
           /\ predSet /= {} => RatEq(precision, Rat(Cardinality(matched), Cardinality(predSet)))
           /\ goldSet = {} => recall.num = 0
           /\ predSet = {} => precision.num = 0

\* both lists empty
C15_Witness ==
    /\ last.op = "score"
    /\ last.gold.cpt_codes = <<>>
    /\ last.pred.cpt_codes = <<>>
    /\ last.score.cpt_recall.num = 0
    /\ last.score.cpt_precision.num = 0

\* C16: codes that differ only in letter case or surrounding blanks are the same
\* code for the primary match and as elements of the procedure sets (duplicates
\* collapse); codes that differ otherwise, such as by a modifier suffix, are
\* different elements and never match.
C16_NormalizedComparison ==
    last.op = "score" =>
        LET g == last.gold.cpt_codes
            p == last.pred.cpt_codes
            score == last.score
        IN /\ score.primary_match = SameCode(last.gold.primary_icd, last.pred.primary_icd)
           /\ \A i \in 1..Len(g) :
                 /\ (\E j \in 1..Len(p) : SameCode(g[i], p[j]))
                        <=> (\E k \in 1..Len(score.matched_cpts) :
                                SameCode(g[i], score.matched_cpts[k]))
                 /\ (\A j \in 1..Len(p) : ~SameCode(g[i], p[j]))
                        <=> (\E k \in 1..Len(score.missed_cpts) :
                                SameCode(g[i], score.missed_cpts[k]))
           /\ \A j \in 1..Len(p) :
                 (\A i \in 1..Len(g) : ~SameCode(g[i], p[j]))
                     <=> (\E k \in 1..Len(score.hallucinated_cpts) :
                             SameCode(p[j], score.hallucinated_cpts[k]))
           /\ \A k, m \in 1..Len(score.matched_cpts) :
                 SameCode(score.matched_cpts[k], score.matched_cpts[m]) => k = m
           /\ \A k, m \in 1..Len(score.missed_cpts) :
                 SameCode(score.missed_cpts[k], score.missed_cpts[m]) => k = m
           /\ \A k, m \in 1..Len(score.hallucinated_cpts) :
                 SameCode(score.hallucinated_cpts[k], score.hallucinated_cpts[m]) => k = m
           /\ ~SameCode(<<"99214", "-", "25">>, <<"99214">>)

\* the primary codes differ in case and blanks and match; the gold list holds the
\* same code twice, padded and unpadded, and it is matched once; the prediction's
\* code with a modifier is hallucinated
C16_Witness ==
    /\ last.op = "score"
    /\ last.gold.primary_icd /= last.pred.primary_icd
    /\ last.score.primary_match
    /\ last.gold.cpt_codes = <<<<"99214">>, <<Blank, "99214", Blank>>>>
    /\ last.pred.cpt_codes = <<<<"99214">>, <<"99214", "-", "25">>>>
    /\ last.score.matched_cpts = <<<<"99214">>>>
    /\ last.score.hallucinated_cpts = <<<<"99214", "-", "25">>>>

\* C19 (as claimed): the per-run precision of the aggregations equals the
\* precision of the Scoring Engine, and hallucinated_count = predicted_count -
\* matched_count.
C19_PrecisionAgrees ==
    last.op = "score" =>
        /\ RatEq(RunPrecision(last.run), last.score.cpt_precision)
        /\ Len(last.run.hallucinated_cpts)
              = Len(last.run.pred_cpts) - Len(last.score.matched_cpts)

(***************************************************************************)
(* The aggregations.                                                       *)
(***************************************************************************)
ResultScore(r) == RatAdd(IF r.primary_match THEN Rat(1, 1) ELSE Rat(0, 1), r.cpt_recall)
RunsOfCase(m) == SelectSeq(testResults, LAMBDA r : r.mrn = m)
RunsOfPrompt(n) == SelectSeq(testResults, LAMBDA r : r.prompt_name = n)
RECURSIVE RecallSum(_)
RecallSum(list) ==
    IF list = <<>> THEN Rat(0, 1) ELSE RatAdd(list[1].cpt_recall, RecallSum(Tail(list)))
Matches(list) == Cardinality({i \in 1..Len(list) : list[i].primary_match})
Latest(list) ==
    CHOOSE t \in {list[i].timestamp : i \in 1..Len(list)} :
        \A i \in 1..Len(list) : list[i].timestamp <= t
FirstIndex(n) ==
    CHOOSE i \in 1..Len(testResults) :
        /\ testResults[i].prompt_name = n
        /\ \A j \in 1..(i - 1) : testResults[j].prompt_name /= n

\* C17: the best result of a case is, among the case's runs taken newest-first,
\* the first one whose score (1 if primary_match else 0) + cpt_recall is maximal.
C17_BestResult ==
    LET groups == keyResults(testResults)
    IN /\ {groups[g].mrn : g \in 1..Len(groups)} = {testResults[i].mrn : i \in 1..Len(testResults)}
       /\ \A g \in 1..Len(groups) :
             LET rs == RunsOfCase(groups[g].mrn)
             IN /\ NewestFirst(rs)
                /\ groups[g].promptResults = [i \in 1..Len(rs) |-> PromptResultOf(rs[i])]
                /\ \E k \in 1..Len(rs) :
                      /\ bestResult(groups[g]) = PromptResultOf(rs[k])
                      /\ \A j \in 1..Len(rs) : ~RatLess(ResultScore(rs[k]), ResultScore(rs[j]))
                      /\ \A j \in 1..(k - 1) : RatLess(ResultScore(rs[j]), ResultScore(rs[k]))

\* a case with three runs: the newest scores 1 by recall alone, the next scores 1
\* by its primary match alone, the oldest scores 3/2 and is the best; and after
\* it a case whose two runs tie at 1, where the newer one is the best
C17_Witness ==
    /\ Len(testResults) = 3
    /\ \A i \in 1..3 : testResults[i].mrn = "1"
    /\ ~testResults[1].primary_match /\ RatEq(testResults[1].cpt_recall, Rat(1, 1))
    /\ testResults[2].primary_match /\ RatEq(testResults[2].cpt_recall, Rat(0, 1))
    /\ testResults[3].primary_match /\ RatEq(testResults[3].cpt_recall, Rat(1, 2))
    /\ bestResult(keyResults(testResults)[1]) = PromptResultOf(testResults[3])
    /\ bestResult(keyResults(SubSeq(testResults, 1, 2))[1]) = PromptResultOf(testResults[1])

\* C18 (as claimed): the by-prompt aggregation has one group per prompt name,
\* every run is counted in the group of its name and in no other, the count,
\* the primary-match rate, the mean recall and the overall score of a group are
\* those of its runs, and the groups are ordered by the timestamp of their most
\* recent run, ascending, ties in the order in which the groups were inserted.
C18_ByPrompt ==
    LET rows == promptPerformance(testResults)
        names == {testResults[i].prompt_name : i \in 1..Len(testResults)}
    IN /\ Len(rows) = Cardinality(names)
       /\ {rows[g].name : g \in 1..Len(rows)} = names
       /\ \A g \in 1..Len(rows) :
             LET rs == RunsOfPrompt(rows[g].name)
                 rate == Rat(Matches(rs), Len(rs))
                 mean == RatOver(RecallSum(rs), Len(rs))
             IN /\ rows[g].tests = Len(rs)
                /\ rows[g].primaryMatchPct = RoundPercent(rate)
                /\ rows[g].cptRecallPct = RoundPercent(mean)
                /\ rows[g].overallScore = RoundPercent(RatHalf(RatAdd(rate, mean)))
                /\ rows[g].timestamp = Latest(rs)
       /\ \A g, h \in 1..Len(rows) :
             g < h => \/ rows[g].timestamp < rows[h].timestamp
                      \/ /\ rows[g].timestamp = rows[h].timestamp
                         /\ FirstIndex(rows[g].name) < FirstIndex(rows[h].name)

(***************************************************************************)
(* The Prompt Tester.                                                      *)
(***************************************************************************)
\* a step in which a run-test model call resolves, and the call it resolves
ResolveStep == calls' /= calls /\ calls' \subseteq calls
ResolvedCall == CHOOSE c \in calls : c \notin calls'
\* the resolved call failed: the upstream call was rejected, its answer could not
\* be parsed, or it parsed to a prediction that cannot be scored
FailedResponse(response) ==
    \/ response.kind \in {"rejected", "unparseable"}
    \/ response.kind = "parsed" /\ "cpt_codes" \notin DOMAIN response.prediction
PromptNamesOf(list) == {list[i].name : i \in 1..Len(list)}

\* C11: a TestRun never changes after it was appended: every step leaves every
\* run of the history and every stored row as it was, also a step that ingests
\* the ground truth of the run's Case again.
C11_RunsImmutable ==
    [][/\ Len(testResults') >= Len(testResults)
       /\ \A i \in 1..Len(testResults) :
             testResults'[i + Len(testResults') - Len(testResults)] = testResults[i]
       /\ \A i \in 1..Len(dbResults) : dbResults'[i] = dbResults[i]]_vars

\* a run is in the history and in the table with the gold codes of its time,
\* and the ground truth of its Case has been replaced since
C11_Witness ==
    /\ Len(testResults) = 1
    /\ Len(dbResults) = 1
    /\ last.op = "ingest_gold"
    /\ testResults[1].gold_primary = EntryA.primary_icd
    /\ dbResults[1].gold_primary = EntryA.primary_icd
    /\ FindCase(cases, testResults[1].mrn).ground_truth.primary_icd = EntryB.primary_icd

\* C12: a test execution that succeeds appends exactly one TestRun; one that
\* fails (runTest returns for want of a case or credential, the upstream call is
\* rejected, the answer is unparseable, or scoring raises) appends no TestRun and
\* saves no prompt, and no other step of the tester changes the history or the
\* saved prompts.
C12_RunOutcome ==
    [][/\ ResolveStep =>
             IF FailedResponse(last'.response)
             THEN /\ testResults' = testResults
                  /\ savedPrompts' = savedPrompts
                  /\ posts' = posts
                  /\ promptPosts' = promptPosts
             ELSE /\ Len(testResults') = Len(testResults) + 1
                  /\ SubSeq(testResults', 2, Len(testResults')) = testResults
                  /\ testResults'[1].mrn = ResolvedCall.selectedCase.mrn
                  /\ testResults'[1].id \notin RowIds(testResults)
                  /\ posts' = posts \cup {testResults'[1]}
       /\ ~ResolveStep =>
             /\ testResults' = testResults
             /\ savedPrompts' = savedPrompts
       /\ (tester.mounted /\ tester'.mounted /\ tester'.error = SelectError
              /\ tester.error /= SelectError) =>
             /\ calls' = calls
             /\ posts' = posts
             /\ promptPosts' = promptPosts]_vars

\* a run succeeded, and after it a run whose prediction could not be scored
\* failed and left the history and the saved prompts with one entry each
C12_Witness ==
    /\ last.op = "run_test"
    /\ last.response.kind = "parsed"
    /\ "cpt_codes" \notin DOMAIN last.response.prediction
    /\ Len(testResults) = 1
    /\ Len(savedPrompts) = 1
    /\ calls = {}

\* C13 (as claimed): at most one run-test model call is in flight, and while one
\* is in flight the run button of the page is disabled.
C13_OneCallInFlight ==
    /\ Cardinality(calls) <= 1
    /\ (calls /= {} /\ PanelShown) => tester.status = "loading"

\* C20 (as claimed): saving a prompt under a name that the saved prompts hold
\* replaces the text of that entry, keeps its id and creation time and adds no
\* entry; saving under a name they do not hold adds exactly one entry; in the
\* in-memory list and in the saved_prompts table.
C20_UpsertByName ==
    [][/\ (ResolveStep /\ ~FailedResponse(last'.response)) =>
             LET name == ResolvedCall.promptName
                 text == ResolvedCall.prompt
             IN IF name \in PromptNamesOf(savedPrompts)
                THEN /\ Len(savedPrompts') = Len(savedPrompts)
                     /\ \A i \in 1..Len(savedPrompts) :
                           savedPrompts'[i] =
                               IF savedPrompts[i].name = name
                               THEN [savedPrompts[i] EXCEPT !.text = text]
                               ELSE savedPrompts[i]
                ELSE /\ Len(savedPrompts') = Len(savedPrompts) + 1
                     /\ SubSeq(savedPrompts', 1, Len(savedPrompts)) = savedPrompts
                     /\ savedPrompts'[Len(savedPrompts')].name = name
                     /\ savedPrompts'[Len(savedPrompts')].text = text
       /\ dbPrompts' /= dbPrompts =>
             \E body \in promptPosts :
                 IF body.name \in PromptNamesOf(dbPrompts)
                 THEN /\ Len(dbPrompts') = Len(dbPrompts)
                      /\ \A i \in 1..Len(dbPrompts) :
                            dbPrompts'[i] =
                                IF dbPrompts[i].name = body.name
                                THEN [dbPrompts[i] EXCEPT !.text = body.text]
                                ELSE dbPrompts[i]
                 ELSE /\ Len(dbPrompts') = Len(dbPrompts) + 1
                      /\ SubSeq(dbPrompts', 1, Len(dbPrompts)) = dbPrompts
                      /\ dbPrompts'[Len(dbPrompts')].name = body.name
                      /\ dbPrompts'[Len(dbPrompts')].text = body.text]_vars

(***************************************************************************)
(* Identifier extraction.                                                  *)
(***************************************************************************)
\* the keyword of each of the first three patterns, by priority
PatternKeyword(p) == IF p = 1 THEN TokId ELSE IF p = 2 THEN TokMrn ELSE TokMedRec
\* the positions of the digits captured by the matches of pattern p in a text
CapturesOf(text, p) ==
    IF p \in 1..3
    THEN {i \in 2..Len(text) : text[i - 1] = PatternKeyword(p) /\ text[i] \in DigitRuns}
    ELSE {i \in 1..Len(text) : text[i] \in SevenDigitRuns}
Matching(text) == {p \in 1..4 : CapturesOf(text, p) /= {}}

\* C22: extractMRN returns the capture of the highest-priority pattern that
\* matches anywhere in the text (1: id #, 2: MRN, 3: Medical Record Number,
\* 4: a standalone run of seven digits), wherever the matches of the patterns
\* below it are, and returns nothing only when no pattern matches; a text whose
\* leftmost `id #` match is "id #42" and that holds a bare seven-digit number
\* yields "42".
C22_PatternPriority ==
    last.op = "extract" =>
        LET text == last.text
        IN /\ (last.mrn = Undef) <=> (Matching(text) = {})
           /\ Matching(text) /= {} =>
                 LET p == CHOOSE q \in Matching(text) : \A r \in Matching(text) : q <= r
                     i == CHOOSE j \in CapturesOf(text, p) : \A k \in CapturesOf(text, p) : j <= k
                 IN last.mrn = text[i]
           /\ (/\ CapturesOf(text, 1) /= {} /\ CapturesOf(text, 4) /= {}
               /\ text[CHOOSE j \in CapturesOf(text, 1) :
                          \A k \in CapturesOf(text, 1) : j <= k] = "42")
                 => last.mrn = "42"

\* a bare seven-digit number comes first in the text and "id #42" after it
C22_Witness ==
    /\ last.op = "extract"
    /\ last.text = <<"7654321", TokId, "42">>
    /\ last.mrn = "42"

(***************************************************************************)
(* Overlapping ingestion calls.                                            *)
(***************************************************************************)
\* the call of the step was made through the callback of an older render: the
\* handler that made it was in flight while another call completed
OverlapStep == (GoldStep \/ NoteStep) /\ last'.stale
\* the keys the call of the step writes
KeysWritten ==
    IF last'.op = "ingest_note"
    THEN IF last'.success THEN {last'.mrn} ELSE {}
    ELSE {last'.entries[i].mrn : i \in ValidIndices(last'.entries)}
BothHalves(c) == HasTruth(c) /\ HasText(c) /\ Get(c, "status") = "complete"

\* C23 (as claimed): when a gold ingestion and a note ingestion for the same key
\* overlap, the Case holds the ground truth and the raw text and is complete
\* once both have been applied, whichever of the two is applied last.
C23_OverlapKeepsBothHalves ==
    [][/\ (OverlapStep /\ last'.op = "ingest_note") =>
             \A k \in KeysWritten :
                 (k \in KeysOf(cases) /\ HasTruth(FindCase(cases, k)))
                     => BothHalves(FindCase(cases', k))
       /\ (OverlapStep /\ last'.op = "ingest_gold") =>
             \A k \in KeysWritten :
                 (k \in KeysOf(cases) /\ HasText(FindCase(cases, k)))
                     => BothHalves(FindCase(cases', k))]_vars

\* C24: an ingestion call leaves every Case whose key it does not write as it
\* was, also when the call was made through the callback of an older render;
\* no other step changes a Case.
C24_OtherKeysUnchanged ==
    [][/\ (GoldStep \/ NoteStep) =>
             \A i \in 1..Len(cases) :
                 cases[i].mrn \notin KeysWritten =>
                     /\ i <= Len(cases')
                     /\ cases'[i] = cases[i]
       /\ ~(GoldStep \/ NoteStep) => cases' = cases]_vars

\* Case 1 is complete, and a gold ingestion for key 2 made through the callback
\* of an older render has been applied after it
C24_Witness ==
    /\ last.op = "ingest_gold"
    /\ last.stale
    /\ last.entries = <<EntryC>>
    /\ Len(cases) = 2
    /\ Get(FindCase(cases, "1"), "status") = "complete"
    /\ Get(FindCase(cases, "2"), "status") = "incomplete_truth_only"

(***************************************************************************)
(* The evaluation round.                                                   *)
(***************************************************************************)
\* a step in which runTest issues its model call
IssueStep == calls' /= calls /\ calls \subseteq calls'
\* a round is running while its model call is in flight
Running == calls /= {}

\* C25 (as claimed): a round enters running only from a state in which no round
\* is running, and the page shows it as loading; when the model call resolves
\* the round leaves running with its outcome, success or failed, shown on the
\* page; the page never shows loading without a call in flight and leaves
\* loading only when the call resolves; after the outcome no round is running
\* and the run button is enabled again.
C25_RoundStateMachine ==
    [][/\ IssueStep =>
             /\ ~Running
             /\ tester.status /= "loading"
             /\ tester'.status = "loading"
       /\ ResolveStep =>
             /\ calls' = {}
             /\ tester'.mounted =>
                   tester'.status = IF FailedResponse(last'.response) THEN "error"
                                    ELSE "success"
       /\ (tester.mounted /\ tester'.mounted /\ tester.status = "loading"
              /\ tester'.status /= "loading") => ResolveStep
       /\ (tester'.mounted /\ tester'.status = "loading") => calls' /= {}]_vars

(***************************************************************************)
(* The improvement sub-flow.                                               *)
(***************************************************************************)
ImprovedNames(list) == {list[i].name : i \in {j \in 1..Len(list) : StartsWithImproved(list[j].name)}}
ApplyStep == last'.op = "apply" /\ nops' = nops + 1
ImproveIssueStep == improves' /= improves /\ improves \subseteq improves'
ImproveResolveStep == improves' /= improves /\ improves' \subseteq improves
ImproveResolved == CHOOSE c \in improves : c \notin improves'
\* a click on the improve button that fails for want of a credential
ImproveRefusedStep ==
    /\ improves' = improves
    /\ ~Truthy(apiKey)
    /\ tester' = [tester EXCEPT !.improvedPrompt = Null, !.error = KeyError]
TextsOf(list, name) == {list[i].text : i \in {j \in 1..Len(list) : list[j].name = name}}

\* C21: applying a candidate names it `Improved v<n>`, n being one more than the
\* number of distinct saved-prompt names that start with `Improved`, makes it
\* the current prompt text and name, saves it under that name (one entry more
\* when the name is new, the text of the entry replaced when it exists) and
\* clears the candidate.
C21_ApplyImproved ==
    [][ApplyStep =>
          LET n == Cardinality(ImprovedNames(savedPrompts)) + 1
              name == <<"Improved", " v", n>>
              text == tester.improvedPrompt
          IN /\ tester'.promptName = name
             /\ tester'.prompt = text
             /\ tester'.improvedPrompt = Null
             /\ TextsOf(savedPrompts', name) = {text}
             /\ Len(savedPrompts') =
                    IF name \in PromptNamesOf(savedPrompts) THEN Len(savedPrompts)
                    ELSE Len(savedPrompts) + 1
             /\ \A i \in 1..Len(savedPrompts) :
                    savedPrompts[i].name /= name => savedPrompts'[i] = savedPrompts[i]
             /\ \E body \in promptPosts' : body.name = name /\ body.text = text]_vars

\* two candidates have been applied as Improved v2 and Improved v3, after a
\* prompt that the operator had named Improved
C21_Witness ==
    /\ last.op = "apply"
    /\ nops = 2
    /\ tester.mounted
    /\ tester.promptName = <<"Improved", " v", 3>>
    /\ tester.prompt = "prompt v3"
    /\ tester.improvedPrompt = Null
    /\ PromptNamesOf(savedPrompts) =
          {DefaultPromptName, <<"Improved">>, <<"Improved", " v", 2>>, <<"Improved", " v", 3>>}

\* C26: the improve call is issued with the analyzing flag set; when it resolves
\* the flag is cleared, a returned text is held as the candidate and a failure
\* holds none; until the operator applies the candidate the current prompt
\* text, the prompt name and the saved prompts are not changed by the sub-flow;
\* dismissing discards the candidate and changes nothing else.
C26_ImproveFlow ==
    [][/\ ImproveIssueStep =>
             /\ ~tester.improvingPrompt
             /\ tester'.improvingPrompt
             /\ tester'.improvedPrompt = Null
       /\ (ImproveResolveStep /\ tester.mounted /\ tester.mount = ImproveResolved.mount) =>
             /\ tester.improvingPrompt
             /\ ~tester'.improvingPrompt
             /\ \/ /\ tester'.improvedPrompt \in ImprovedTexts
                   /\ tester'.error = tester.error
                \/ /\ tester'.improvedPrompt = Null
                   /\ tester'.error = ImproveError
             /\ tester'.prompt = tester.prompt
             /\ tester'.promptName = tester.promptName
             /\ savedPrompts' = savedPrompts
       /\ (ImproveResolveStep /\ ~(tester.mounted /\ tester.mount = ImproveResolved.mount)) =>
             tester' = tester /\ savedPrompts' = savedPrompts
       /\ (ImproveIssueStep \/ (last'.op = "dismiss" /\ last' /= last)) =>
             /\ tester'.prompt = tester.prompt
             /\ tester'.promptName = tester.promptName
             /\ savedPrompts' = savedPrompts
       /\ (tester.mounted /\ tester'.mounted /\ tester.improvingPrompt
              /\ ~tester'.improvingPrompt) => ImproveResolveStep
       /\ (tester.mounted /\ tester'.mounted /\ tester.mount = tester'.mount
              /\ tester'.improvedPrompt /= tester.improvedPrompt) =>
             \/ (ImproveIssueStep /\ tester'.improvedPrompt = Null)
             \/ ImproveRefusedStep
             \/ ImproveResolveStep
             \/ (ApplyStep /\ tester'.improvedPrompt = Null)
             \/ (last'.op = "dismiss" /\ tester' = [tester EXCEPT !.improvedPrompt = Null])]_vars

\* a candidate is held, the analyzing flag is cleared and the prompt, its name
\* and the saved prompts are those of before the improvement
C26_Witness ==
    /\ tester.mounted
    /\ tester.improvedPrompt = "prompt v3"
    /\ ~tester.improvingPrompt
    /\ improves = {}
    /\ tester.prompt = DefaultPrompt
    /\ tester.promptName = DefaultPromptName
    /\ PromptNamesOf(savedPrompts) = {DefaultPromptName}

\* what a reader of a field sees: an absent key, undefined and null read alike
SameField(a, b, k) ==
    /\ k \in {"status", "specialty"} => OrNull(Get(a, k)) = OrNull(Get(b, k))
    /\ k \in {"ground_truth", "metadata"} => GetObj(a, k) = JsonOf(GetObj(b, k))
    /\ k = "raw_text" => GetText(a, k) = GetText(b, k)

MirrorFields == {"status", "specialty", "ground_truth", "raw_text", "metadata"}

Mirrors(row, c) == \A k \in MirrorFields : SameField(FormatCaseRow(row), c, k)

Keys(list) == {Get(list[i], "mrn") : i \in 1..Len(list)}

\* C27: once every request of the ingestion calls issued so far has been applied, in
\* the order of issue, the persisted row of each key has the status, ground truth,
\* raw text, specialty and metadata of the in-memory Case of that key
C27_RowsMirrorCases ==
    outbox = <<>> =>
        /\ Keys(dbCases) = Keys(cases)
        /\ \A i \in 1..Len(dbCases), j \in 1..Len(cases) :
              dbCases[i].mrn = Get(cases[j], "mrn") => Mirrors(dbCases[i], cases[j])

\* a request of a mutation ends in its catch clause
RejectedStep ==
    \/ Len(outbox') < Len(outbox)
    \/ posts' /= posts /\ posts' \subseteq posts
    \/ promptPosts' /= promptPosts /\ promptPosts' \subseteq promptPosts

RECURSIVE AddAll(_, _, _)
AddAll(prev, requests, i) ==
    IF i > Len(requests) THEN prev ELSE AddAll(addCase(prev, requests[i].body), requests, i + 1)

IssuedCases == SubSeq(outbox', Len(outbox) + 1, Len(outbox'))

\* a mutation issues its request with the change already made in memory
AppliedStep ==
    /\ (Len(outbox') > Len(outbox) /\ outbox'[Len(outbox')].path = "cases")
          => cases' = AddAll(cases, IssuedCases, 1)
    /\ \A r \in posts' \ posts : testResults' = <<r>> \o testResults
    /\ \A b \in promptPosts' \ promptPosts :
          /\ \E i \in 1..Len(savedPrompts') :
                /\ savedPrompts'[i].id = b.id /\ savedPrompts'[i].name = b.name
                /\ savedPrompts'[i].text = b.text
          /\ \A i \in 1..Len(savedPrompts) :
                savedPrompts[i].name /= b.name => savedPrompts'[i] = savedPrompts[i]
    /\ (Len(outbox') > Len(outbox) /\ outbox'[Len(outbox')].path = "prompts")
          => savedPrompts' = SelectSeq(savedPrompts,
                                       LAMBDA p : p.id /= outbox'[Len(outbox')].id)

\* C28: with the API out of reach every mutation (a Case added or merged, a TestRun
\* appended, a prompt saved or deleted) has made its change in memory when it issues
\* its request, and the rejection of the request changes neither the in-memory state
\* nor what the caller was returned, and nothing is stored
C28_OfflineStillApplied ==
    [][/\ AppliedStep
       /\ RejectedStep => UNCHANGED <<cases, testResults, savedPrompts, last, tester>>
       /\ UNCHANGED <<dbCases, dbResults, dbPrompts>>]_vars

\* a Case, a TestRun and a prompt are held in memory, every request has been rejected
\* and the tables are empty
C28_Witness ==
    /\ Len(cases) >= 1 /\ Len(testResults) >= 1 /\ Len(savedPrompts) >= 1
    /\ outbox = <<>> /\ posts = {} /\ promptPosts = {}
    /\ dbCases = <<>> /\ dbResults = <<>> /\ dbPrompts = <<>>

\* handlers of the Ingestion page that got past the credential check in this step
StartedUploads == {u \in uploads' \ uploads : u.kind = "audit" \/ u.i = 1}

AuditAttemptStep == nops' = nops + 1 /\ last'.op = "audit_upload"
NoteAttemptStep == nops' = nops + 1 /\ last'.op = "note_upload"

\* what the operator is told in place of the work
RefusedStep ==
    \/ AuditAttemptStep /\ ingestion'.auditStatus = "error"
       /\ ingestion'.auditMessage = MissingKeyMessage
    \/ NoteAttemptStep /\ ingestion'.noteStatus = "error"
       /\ ingestion'.noteMessage = MissingKeyMessage
    \/ ImproveRefusedStep /\ tester' /= tester

\* C29: while no credential is configured, no handler issues a model call (a test
\* run cannot be started, its button being disabled), an audit upload, a note upload
\* and a prompt improvement that are attempted end with the missing-credential
\* message, and they leave Cases, Ledger and saved prompts as they were
C29_NoCredentialNoCall ==
    [][~Truthy(apiKey) =>
          /\ calls' \subseteq calls /\ improves' \subseteq improves /\ StartedUploads = {}
          /\ (AuditAttemptStep \/ NoteAttemptStep \/ (tester' /= tester /\ tester.mounted
                                                       /\ tester'.mounted /\ calls' = calls
                                                       /\ improves' = improves))
                => /\ RefusedStep
                   /\ UNCHANGED <<cases, testResults, savedPrompts, dbCases, dbResults,
                                  dbPrompts, outbox, posts, promptPosts>>]_vars

\* without a credential an audit upload, a note upload and a prompt improvement have
\* been attempted and refused
C29_Witness ==
    /\ ~Truthy(apiKey)
    /\ ingestion.auditStatus = "error" /\ ingestion.auditMessage = MissingKeyMessage
    /\ ingestion.noteStatus = "error" /\ ingestion.noteMessage = MissingKeyMessage
    /\ tester.mounted /\ tester.error = KeyError
    /\ calls = {} /\ improves = {} /\ uploads = {}

NoteBatchesInFlight == {u \in uploads : u.kind = "notes"}

\* the file's note is in the repository
Ingested(file, list) ==
    \E i \in 1..Len(list) :
        /\ GetText(list[i], "raw_text") = file.data
        /\ Get(GetObj(list[i], "metadata"), "raw_note_file") = file.name

\* the loop of a note upload is left
NoteBatchEnds(u) == u \in uploads /\ \A v \in uploads' : v.kind = "notes" => v.files /= u.files

\* C30: a note upload of N files takes every file in turn whatever the earlier files
\* came to, and when it ends the page is out of the loading state and lists N results
\* in the order of the files, a result marked success exactly when the note of its
\* file was ingested
C30_BatchIsolatesFailures ==
    /\ [](\A u \in NoteBatchesInFlight :
            /\ ingestion.noteStatus = "loading"
            /\ u.i <= Len(u.files) /\ Len(u.results) = u.i - 1
            /\ \A j \in 1..Len(u.results) : u.results[j].file = u.files[j].name)
    /\ [](ingestion.noteStatus = "loading" => NoteBatchesInFlight /= {})
    /\ [][\A u \in NoteBatchesInFlight :
            NoteBatchEnds(u) =>
               /\ u.i = Len(u.files)
               /\ ingestion'.noteStatus = "success"
               /\ Len(ingestion'.noteResults) = Len(u.files)
               /\ \A j \in 1..Len(u.files) :
                     /\ ingestion'.noteResults[j].file = u.files[j].name
                     /\ ingestion'.noteResults[j].success <=> Ingested(u.files[j], cases')]_vars

\* a note upload of two files has ended: the first file failed, the second was taken
\* all the same, and both results are listed in the order of the files
C30_Witness ==
    /\ ingestion.noteStatus = "success"
    /\ Len(ingestion.noteResults) = 2
    /\ ingestion.noteResults[1].file = "a.pdf" /\ ~ingestion.noteResults[1].success
    /\ ingestion.noteResults[2].file = "b.pdf"
    /\ NoteBatchesInFlight = {}

(***************************************************************************)
(* The credential handed to the service.                                   *)
(***************************************************************************)
\* the audit handler of the step runs its try block to the end or to its catch
AuditSettled == {u \in uploads \ uploads' : u.kind = "audit"}

\* the keys of the entries of a file that carry an identifier
EntryKeys(entries) ==
    {entries[i].mrn : i \in {j \in 1..Len(entries) : ~EntrySkipped(entries[j])}}

\* C39: with a credential configured, an audit upload (whose file the service can
\* read) does not end with the missing-credential error: it ends in status success
\* with its identified entries ingested, and a note upload does not list a file as
\* failed for want of a credential
C39_CredentialReachesService ==
    [][Truthy(apiKey) =>
          /\ \A u \in AuditSettled :
                /\ ingestion'.auditStatus = "success"
                /\ ingestion'.auditMessage /= <<"Error: ", KeyError>>
                /\ EntryKeys(u.file.data) \subseteq Keys(cases')
          /\ \A u \in NoteBatchesInFlight :
                NoteBatchEnds(u) =>
                   \A j \in 1..Len(u.files) :
                      Truthy(extractMRN(u.files[j].data)) => ingestion'.noteResults[j].success]_vars

(***************************************************************************)
(* The flagged keys and the improvement request.                           *)
(***************************************************************************)
FlagStep == last'.op \in {"toggle", "clear"} /\ (last' /= last \/ flaggedMrns' /= flaggedMrns)

\* C33: the flagged keys behave as a set: a toggle of a key that is not flagged
\* adds exactly that key, a toggle of a flagged key removes exactly that key, so
\* that a second toggle of the same key gives the set back, clear leaves no key,
\* no key is held twice, and a flag operation leaves every Case, every TestRun
\* and every saved prompt, in memory and in the store, as it was.
C33_FlagSetSemantics ==
    [][FlagStep =>
          /\ last'.op = "toggle" =>
                /\ Has(flaggedMrns, last'.mrn) =>
                      Elems(flaggedMrns') = Elems(flaggedMrns) \ {last'.mrn}
                /\ ~Has(flaggedMrns, last'.mrn) =>
                      Elems(flaggedMrns') = Elems(flaggedMrns) \cup {last'.mrn}
                /\ Elems(toggleFlaggedMrn(flaggedMrns', last'.mrn)) = Elems(flaggedMrns)
          /\ last'.op = "clear" => flaggedMrns' = <<>>
          /\ NoDuplicates(flaggedMrns')
          /\ UNCHANGED <<cases, testResults, savedPrompts, dbCases, dbResults, dbPrompts>>]_vars

\* a toggle has taken a key out of the flagged keys and left the other one in
C33_Witness ==
    /\ last.op = "toggle"
    /\ ~Has(flaggedMrns, last.mrn)
    /\ Len(flaggedMrns) = 1

\* the improvement requests a step sends
NewImproves == improves' \ improves
\* the flagged keys that name a Case, and those whose Case holds a note
FlaggedWithCase == SelectSeq(flaggedMrns, LAMBDA k : TruthyObj(FindCase(cases, k)))
FlaggedWithNote ==
    SelectSeq(flaggedMrns, LAMBDA k : TruthyText(GetText(FindCase(cases, k), "raw_text")))
\* the runs of a key that no run of the key is newer than
MostRecentRuns(k) ==
    {i \in 1..Len(testResults) :
        /\ testResults[i].mrn = k
        /\ \A j \in 1..Len(testResults) :
              testResults[j].mrn = k => testResults[j].timestamp <= testResults[i].timestamp}
\* the section shows the ground truth the Case of key k holds now
ShowsTruth(section, k) ==
    LET truth == GetObj(FindCase(cases, k), "ground_truth")
    IN /\ section.mrn = k
       /\ section.primary_icd =
             (IF Truthy(Get(truth, "primary_icd")) THEN truth.primary_icd ELSE <<"N/A">>)
       /\ section.cpt_codes =
             (IF TruthyObj(GetObj(truth, "cpt_codes")) THEN truth.cpt_codes ELSE <<"N/A">>)
\* the section shows the outcome of a most recent run of key k, or that there is none
ShowsOutcome(section, k) ==
    IF MostRecentRuns(k) = {}
    THEN section.pred_primary = <<"N/A">> /\ ~section.primary_match
    ELSE \E i \in MostRecentRuns(k) :
            /\ section.pred_primary = testResults[i].pred_primary
            /\ section.primary_match = testResults[i].primary_match
            /\ section.missed = (IF testResults[i].missed_cpts = <<>> THEN <<"None">>
                                 ELSE testResults[i].missed_cpts)
            /\ section.hallucinated = (IF testResults[i].hallucinated_cpts = <<>>
                                       THEN <<"None">> ELSE testResults[i].hallucinated_cpts)
SectionsFor(request, keys) ==
    /\ Len(request.focus) = Len(keys)
    /\ \A i \in 1..Len(keys) :
          ShowsTruth(request.focus[i], keys[i]) /\ ShowsOutcome(request.focus[i], keys[i])

\* C32 as stated: an improvement request has one priority section for every
\* flagged case, with the ground truth the case holds and its most recent outcome.
C32_SectionPerFlaggedCase ==
    [][\A call \in NewImproves : SectionsFor(call.request, FlaggedWithCase)]_vars

\* C32, amended: an improvement request has one priority section for every
\* flagged key whose Case holds a note text at that moment, in the order the keys
\* were flagged, each with the ground truth the Case holds now and the outcome of
\* a run of that key that no run of the key is newer than; a flagged key without
\* a Case or whose Case has no note gets no section.
C32_SectionPerFlaggedNote ==
    [][\A call \in NewImproves : SectionsFor(call.request, FlaggedWithNote)]_vars

\* a request in flight has a section for each of two flagged cases, and the first
\* of them has been run more than once
C32_Witness ==
    \E call \in improves :
        /\ Len(call.request.focus) = 2
        /\ Len(flaggedMrns) = 2
        /\ Cardinality({i \in 1..Len(testResults) :
                           testResults[i].mrn = call.request.focus[1].mrn}) >= 2

\* the codes of field f of all runs of the history
AllCodes(f) == UNION {Elems(testResults[i][f]) : i \in 1..Len(testResults)}
\* the list names exactly the codes, each once, or says that there are none
NamesOnce(list, codes) ==
    /\ NoDuplicates(list)
    /\ Elems(list) = (IF codes = {} THEN {"None"} ELSE codes)
\* the detail entry shows the codes and the match flag of the run
ShowsRun(entry, run) ==
    /\ entry.gold_primary = run.gold_primary /\ entry.pred_primary = run.pred_primary
    /\ entry.gold_cpts = run.gold_cpts /\ entry.pred_cpts = run.pred_cpts
    /\ entry.primary_match = run.primary_match
\* rate is the share of matches among total runs in tenths of a percent, to the
\* nearest tenth
NearestTenth(rate, matches, total) ==
    /\ 2 * (rate * total - 1000 * matches) <= total
    /\ 2 * (1000 * matches - rate * total) <= total
\* the i-th place of a set of places of the history
Nth(places, i) == CHOOSE x \in places : Cardinality({y \in places : y < x}) = i - 1
RequestSummarises(request) ==
    LET n == Len(request.detailed)
    IN /\ n <= 10
       /\ n = (IF Len(testResults) > 10 THEN 10 ELSE Len(testResults))
       /\ \E listed \in {s \in SUBSET (1..Len(testResults)) : Cardinality(s) = n} :
             /\ \A i \in 1..n : ShowsRun(request.detailed[i], testResults[Nth(listed, i)])
             /\ \A i \in listed, j \in (1..Len(testResults)) \ listed :
                   testResults[j].timestamp <= testResults[i].timestamp
       /\ request.totalTests = Len(testResults)
       /\ NearestTenth(request.matchRate,
                       Cardinality({i \in 1..Len(testResults) : testResults[i].primary_match}),
                       Len(testResults))
       /\ NamesOnce(request.missed, AllCodes("missed_cpts"))
       /\ NamesOnce(request.hallucinated, AllCodes("hallucinated_cpts"))

\* C31: the detail section of an improvement request lists at most 10 runs, all
\* of them when the ledger holds no more than 10 and otherwise 10 runs that no
\* run left out is newer than, while the number of tests, the match rate and
\* the missed and hallucinated codes, each named once, are those of the whole
\* history.
C31_DetailBounded ==
    [][\A call \in NewImproves : RequestSummarises(call.request)]_vars

\* a request in flight was built from a ledger of more than 10 runs whose oldest
\* run, which is not listed, missed a code that the summary names
C31_Witness ==
    \E call \in improves :
        /\ Len(testResults) > 10
        /\ call.request.totalTests = Len(testResults)
        /\ Len(call.request.detailed) = 10
        /\ testResults[Len(testResults)].timestamp < testResults[10].timestamp
        /\ call.request.missed /= <<"None">>

(***************************************************************************)
(* The initial load.                                                       *)
(***************************************************************************)
LoadEnds == load.stage /= "done" /\ load'.stage = "done"

\* C38: what the session has put into memory while the initial load was in
\* flight is still in memory when the load has completed: every Case key, every
\* TestRun id and every saved-prompt name held before the step that ends the
\* load is held after it.
C38_ChangesSurviveLoad ==
    [][LoadEnds =>
          /\ Keys(cases) \subseteq Keys(cases')
          /\ RowIds(testResults) \subseteq RowIds(testResults')
          /\ PromptNamesOf(savedPrompts) \subseteq PromptNamesOf(savedPrompts')]_vars

(***************************************************************************)
(* Saved prompts and the runs that name them.                              *)
(***************************************************************************)
\* C34: in every reachable state no two entries of the savedPrompts list in
\* memory have the same name.
C34_UniqueNames ==
    \A i, j \in 1..Len(savedPrompts) : savedPrompts[i].name = savedPrompts[j].name => i = j

\* C35: at every application of an improved prompt the generated name
\* `Improved v<n>` is the name of no saved prompt, so that the application adds
\* an entry and leaves every saved prompt as it was.
C35_ApplyNeverOverwrites ==
    [][ApplyStep =>
          /\ ImprovedName(NextVersion(savedPrompts)) \notin PromptNamesOf(savedPrompts)
          /\ \A i \in 1..Len(savedPrompts) : savedPrompts'[i] = savedPrompts[i]]_vars

\* the run was scored on the codes it records
OwnScore(r) ==
    LET score == calculateScore([primary_icd |-> r.gold_primary, cpt_codes |-> r.gold_cpts],
                                [primary_icd |-> r.pred_primary, cpt_codes |-> r.pred_cpts])
    IN /\ r.primary_match = score.primary_match
       /\ r.cpt_recall = score.cpt_recall
       /\ r.missed_cpts = score.missed_cpts
       /\ r.hallucinated_cpts = score.hallucinated_cpts

C37_OneTextPerName ==
    \A i, j \in 1..Len(testResults) :
        testResults[i].prompt_name = testResults[j].prompt_name =>
           testResults[i].prompt_text = testResults[j].prompt_text

====
